---- MODULE Spec2Model ----
(***************************************************************************)
(* A model of mihomo-rs: the retry executor and the HTTP client built on   *)
(* it, the rule engine, the proxy manager, the process supervisor with its *)
(* upgrade, the telemetry streams, the monitor and the CLI's batch test.   *)
(*                                                                         *)
(* Each subsystem has its own specification (SpecRetry, SpecRules,         *)
(* SpecProxy, SpecService, SpecUpgrade, SpecStream, SpecMonitor,           *)
(* SpecBatch, SpecDelay, SpecCidr, SpecPidFile, SpecDownload).  The       *)
(* others are held at their idle value while one subsystem runs.           *)
(***************************************************************************)
EXTENDS Integers, Sequences, FiniteSets, TLC

VARIABLES
    \* ---- retry executor / client (src/src/retry.rs, src/src/client.rs)
    op_kind,        \* which operation execute() is driving: "op", "get" or "core"
    max_attempts,   \* RetryPolicy.max_attempts
    attempt,        \* the loop index of RetryExecutor::execute
    last_error,     \* Option<MihomoError>: "None" or an error kind
    epc,            \* position in execute: "call", "sleep", "done"
    outcomes,       \* the result of each invocation of the operation, in order
    responses,      \* the engine's answer to each request sent, in order
    sleeps,         \* number of backoff sleeps taken
    result,         \* what the call returned: NoResult until it returns
    \* ---- rule engine (src/src/rules.rs)
    engine_rules,   \* the rule list the engine serves on GET /rules
    rules_cache,    \* RuleEngine.rules_cache
    cache_valid,    \* RuleEngine.cache_valid
    rules_fetches,  \* number of GET /rules requests issued
    rules_last,     \* the last call on the rule engine and what it returned
    match_memo,     \* is_rule_match on every rule and query of the model: a
                    \* pure function, tabulated once when the run starts
    \* ---- proxy manager (src/src/proxy.rs)
    engine_items,   \* the proxy table the engine serves on GET /proxies
    proxy_cache,    \* ProxyManager.proxy_cache: name -> ProxyNode
    group_cache,    \* ProxyManager.group_cache: name -> ProxyGroup
    cache_elapsed,  \* seconds since cache_updated_at, NoneInt when it is None
    proxy_last,     \* the last call on the proxy manager and what it returned
    \* ---- process supervisor (src/src/service.rs)
    pid_file,       \* the PID file: <<>> when absent, <<text>> when present
    alive,          \* the PIDs of the processes that are running
    api,            \* what GET /version on the controller address meets
    sup_pc,         \* position in start: "idle" or "polling"
    polls,          \* rounds of start's loop that found the service not running
    spawned,        \* the PID start spawned, NoneInt before
    svc_last,       \* the last supervisor call and what it returned
    sup_log,        \* what the supervisor call in progress, or the last one,
                    \* did, in order: spawn, poll, term, sleep, kill, rmpid, version
    \* ---- upgrade (src/src/service.rs, upgrade_to_version)
    up_pc,          \* position in upgrade_to_version, "idle" outside it
    up_backup,      \* the argument backup
    was_running,    \* the local was_running
    backup_path,    \* the local backup_path: <<>> is None
    binary_path,    \* config.binary_path
    files,          \* the content of the file at each binary path
    backup_file,    \* the content of the file at backup_path
    up_log,         \* the steps the call took, in order, each with its outcome
    up_result,      \* what the call returned, UpPending until it returns
    \* ---- telemetry streams (src/src/core/client.rs, src/src/client.rs)
    st_kind,        \* the function that opened the stream
    wire,           \* the frames the engine emitted and the client has not read
    wire_closed,    \* the engine has ended the connection
    emitted,        \* number of frames the engine emitted
    read_log,       \* the frames the client read, in order
    chan,           \* the items sent on the channel and not yet received
    received,       \* the items the consumer got, in order
    rx_open,        \* the consumer still holds its handle
    task,           \* the producer: "connecting", "running" or "done"
    socket_open,    \* the client holds the connection open
    st_secret,      \* the client's secret: <<>> is None
    st_request,     \* the request that opened the stream, <<>> before it is
                    \* sent: its path and its Authorization header, if any
    \* ---- monitor (src/src/monitor.rs)
    mon_is_running, \* Monitor.is_running
    mon_pc,         \* "loop" while the future of start is alive, else "idle"
    mon_config,     \* Monitor.config
    mon_now,        \* Utc::now(), in ticks
    history,        \* Monitor.history
    cycles,         \* sampling cycles run
    mon_calls,      \* calls of start, stop and get_system_status made
    mon_last,       \* the last call or cycle, its sample and what it returned
    \* ---- batch test of the CLI (src/src/main.rs)
    bt_concurrent,  \* the --concurrent argument: the permits of the semaphore
    bt_permits,     \* the permits the semaphore has left
    bt_tasks,       \* the spawned tasks, in order: where each one is and its result
    \* ---- backoff delays (src/src/retry.rs, RetryPolicy)
    dl_policy,      \* the RetryPolicy, durations in milliseconds
    dl_attempt,     \* the loop index of execute at the next failure
    dl_sleeps,      \* the sleeps taken: attempt, rand::random() and the delay
    \* ---- CIDR membership (src/src/rules.rs, src/src/utils.rs)
    ci_ip,          \* the address asked about, as text
    ci_cidr,        \* the network, as text
    ci_out,         \* <<>>, or what the two functions returned and the build that ran
    \* ---- PID file round trip (src/src/service.rs, src/src/service/process.rs)
    pf_file,        \* the PID file: <<>> when absent, else <<content>>
    pf_log,         \* the calls made on it, in order, and what they returned
    \* ---- a version download (src/src/service.rs, src/src/version/download.rs)
    dn_file,        \* the file at the destination path, <<>> when there is none
    dn_calls,       \* downloads made
    dn_last         \* the last download: its inputs, the step that failed, its result

retryVars == <<op_kind, max_attempts, attempt, last_error, epc, outcomes,
               responses, sleeps, result>>

rulesVars == <<engine_rules, rules_cache, cache_valid, rules_fetches, rules_last,
               match_memo>>

proxyVars == <<engine_items, proxy_cache, group_cache, cache_elapsed, proxy_last>>

serviceVars == <<pid_file, alive, api, sup_pc, polls, spawned, svc_last, sup_log>>

upgradeVars == <<up_pc, up_backup, was_running, backup_path, binary_path, files,
                 backup_file, up_log, up_result>>

streamVars == <<st_kind, wire, wire_closed, emitted, read_log, chan, received,
                rx_open, task, socket_open, st_secret, st_request>>

monitorVars == <<mon_is_running, mon_pc, mon_config, mon_now, history, cycles,
                 mon_calls, mon_last>>

batchVars == <<bt_concurrent, bt_permits, bt_tasks>>

delayVars == <<dl_policy, dl_attempt, dl_sleeps>>

cidrVars == <<ci_ip, ci_cidr, ci_out>>

pidfileVars == <<pf_file, pf_log>>

downloadVars == <<dn_file, dn_calls, dn_last>>

vars == <<retryVars, rulesVars, proxyVars, serviceVars, upgradeVars, streamVars,
          monitorVars,
    batchVars,
    delayVars,
    cidrVars,
    pidfileVars,
    downloadVars>>

\* What the actions of one subsystem leave alone.
notRetry == <<rulesVars, proxyVars, serviceVars, upgradeVars, streamVars,
    monitorVars,
    batchVars,
    delayVars,
    cidrVars,
    pidfileVars,
    downloadVars>>
notRules == <<retryVars, proxyVars, serviceVars, upgradeVars, streamVars,
    monitorVars,
    batchVars,
    delayVars,
    cidrVars,
    pidfileVars,
    downloadVars>>
notProxy == <<retryVars, rulesVars, serviceVars, upgradeVars, streamVars,
    monitorVars,
    batchVars,
    delayVars,
    cidrVars,
    pidfileVars,
    downloadVars>>
notService == <<retryVars, rulesVars, proxyVars, upgradeVars, streamVars,
    monitorVars,
    batchVars,
    delayVars,
    cidrVars,
    pidfileVars,
    downloadVars>>
notUpgrade == <<retryVars, rulesVars, proxyVars, serviceVars, streamVars,
    monitorVars,
    batchVars,
    delayVars,
    cidrVars,
    pidfileVars,
    downloadVars>>
notStream == <<retryVars, rulesVars, proxyVars, serviceVars, upgradeVars,
    monitorVars,
    batchVars,
    delayVars,
    cidrVars,
    pidfileVars,
    downloadVars>>
notMonitor == <<retryVars, rulesVars, proxyVars, serviceVars, upgradeVars,
    streamVars,
    batchVars,
    delayVars,
    cidrVars,
    pidfileVars,
    downloadVars>>
notBatch == <<retryVars, rulesVars, proxyVars, serviceVars, upgradeVars, streamVars, monitorVars,
    delayVars,
    cidrVars,
    pidfileVars,
    downloadVars>>
notDelay == <<retryVars, rulesVars, proxyVars, serviceVars, upgradeVars, streamVars, monitorVars, batchVars,
    cidrVars,
    pidfileVars,
    downloadVars>>
notCidr == <<retryVars, rulesVars, proxyVars, serviceVars, upgradeVars, streamVars, monitorVars, batchVars, delayVars,
    pidfileVars,
    downloadVars>>
notPidfile == <<retryVars, rulesVars, proxyVars, serviceVars, upgradeVars, streamVars, monitorVars, batchVars, delayVars, cidrVars,
    downloadVars>>
notDownload == <<retryVars, rulesVars, proxyVars, serviceVars, upgradeVars, streamVars, monitorVars, batchVars, delayVars, cidrVars, pidfileVars>>

(***************************************************************************)
(* Bounds of the model.                                                    *)
(***************************************************************************)
MaxAttemptsBound == 3
MaxRules == 2
MaxFetches == 2

(***************************************************************************)
(* Error model: src/src/error.rs                                           *)
(***************************************************************************)
ErrorKinds ==
    {"Http", "Json", "Yaml", "UrlParse", "AddrParse", "Config", "Proxy",
     "Rules", "Auth", "Network", "ServiceUnavailable", "Timeout",
     "InvalidParameter", "NotFound", "Internal", "ServiceError",
     "DownloadError", "VersionNotFound", "UnsupportedPlatform", "IoError",
     "Other"}

\* A mutation of is_retryable: Auth and NotFound treated as transient.
is_retryable_mutant(e) ==
    e \in {"Http", "Network", "Timeout", "ServiceUnavailable", "Auth", "NotFound"}

\* MihomoError::is_retryable
is_retryable(e) ==
    e \in {"Http", "Network", "Timeout", "ServiceUnavailable"}

\* impl Clone for MihomoError: the wrapped foreign errors become Internal
CloneError(e) ==
    IF e \in {"Http", "Json", "Yaml", "UrlParse", "AddrParse", "Other"}
    THEN "Internal" ELSE e

Ok(v) == [tag |-> "Ok", val |-> v]
Err(e) == [tag |-> "Err", val |-> e]
NoResult == [tag |-> "None", val |-> "None"]

(***************************************************************************)
(* The engine's answer to one HTTP request.  sent = FALSE: the request     *)
(* failed in transport (connect refused, reset, timeout) and there is no   *)
(* status.  body is "valid" when the text (or "{}" for an empty text)      *)
(* deserialises as the type the caller asked for, "invalid" otherwise.     *)
(***************************************************************************)
Statuses == {200, 302, 401, 403, 404, 500}

Responses ==
    {[sent |-> FALSE, status |-> 0, body |-> "invalid"]}
    \cup {[sent |-> TRUE, status |-> s, body |-> b] :
            s \in Statuses, b \in {"valid", "invalid"}}

\* reqwest StatusCode::is_success
is_success(status) == status >= 200 /\ status < 300

\* The closure MihomoClient::get hands to the retry executor: one request.
GetOnce(resp) ==
    IF ~resp.sent THEN Err("Network")
    ELSE IF is_success(resp.status)
         THEN (IF resp.body = "valid" THEN Ok("value") ELSE Err("Json"))
         ELSE Err("Network")

\* core MihomoClient::http_request over TCP: the status is never looked at
http_request(resp) ==
    IF ~resp.sent THEN Err("Http") ELSE Ok(resp.body)

\* core MihomoClient::get_version: http_request, then serde_json::from_slice
core_get_version(resp) ==
    LET r == http_request(resp) IN
    IF r.tag = "Err" THEN r
    ELSE IF r.val = "valid" THEN Ok("value") ELSE Err("Json")

\* core MihomoClient::switch_proxy: http_request, the body is dropped
core_switch_proxy(resp) ==
    LET r == http_request(resp) IN
    IF r.tag = "Err" THEN r ELSE Ok("unit")

(***************************************************************************)
(* RetryExecutor::execute and execute_sync, one step per invocation of     *)
(* the operation.  op_kind tells the call: "op" is execute, "sync" is      *)
(* execute_sync, "get" is MihomoClient::get, "core" the core client.       *)
(***************************************************************************)
\* The loop with one iteration less
LoopRuns_mutant == attempt < max_attempts - 1

\* The loop with an inclusive range, 0..=max_attempts
LoopRuns_inclusive == attempt <= max_attempts

\* for attempt in 0..self.policy.max_attempts
LoopRuns == attempt < max_attempts

\* The body of the loop for an invocation that returned `out`.
ExecuteStep(out) ==
    /\ epc = "call"
    /\ LoopRuns
    /\ outcomes' = Append(outcomes, out)
    /\ IF out.tag = "Ok"
       THEN /\ result' = out
            /\ epc' = "done"
            /\ UNCHANGED <<last_error, attempt>>
       ELSE /\ last_error' = CloneError(out.val)
            /\ IF ~is_retryable(out.val)
               THEN /\ result' = out
                    /\ epc' = "done"
               ELSE IF attempt = max_attempts - 1
               THEN /\ result' = out
                    /\ epc' = "done"
               ELSE /\ result' = result
                    /\ epc' = "sleep"
            /\ UNCHANGED attempt
    /\ UNCHANGED <<op_kind, max_attempts, sleeps>>

\* execute(operation) and execute_sync(operation) with an arbitrary
\* operation; the two loops are the same statement for statement
InvokeOperation ==
    /\ op_kind \in {"op", "sync"}
    /\ \E out \in {Ok("value")} \cup {Err(e) : e \in ErrorKinds} :
          ExecuteStep(out)
    /\ UNCHANGED responses
    /\ UNCHANGED notRetry

\* MihomoClient::get: execute(closure), one HTTP request per invocation
ClientGetRequest ==
    /\ op_kind = "get"
    /\ \E resp \in Responses :
          /\ ExecuteStep(GetOnce(resp))
          /\ responses' = Append(responses, resp)
    /\ UNCHANGED notRetry

\* sleep(delay).await (std::thread::sleep(delay) in execute_sync), then the
\* next iteration
BackoffSleep ==
    /\ op_kind \in {"op", "sync", "get"}
    /\ epc = "sleep"
    /\ sleeps' = sleeps + 1
    /\ attempt' = attempt + 1
    /\ epc' = "call"
    /\ UNCHANGED <<op_kind, max_attempts, last_error, outcomes, responses, result>>
    /\ UNCHANGED notRetry

\* The statement after the loop: Err(last_error.unwrap_or_else(internal))
LoopExit ==
    /\ op_kind \in {"op", "sync", "get"}
    /\ epc = "call"
    /\ ~LoopRuns
    /\ result' = Err(IF last_error = "None" THEN "Internal" ELSE last_error)
    /\ epc' = "done"
    /\ UNCHANGED <<op_kind, max_attempts, attempt, last_error, outcomes,
                   responses, sleeps>>
    /\ UNCHANGED notRetry

\* A request of the core client (no retry executor): one request, one result
CoreRequest ==
    /\ op_kind = "core"
    /\ epc = "call"
    /\ \E resp \in Responses, f \in {"get_version", "switch_proxy"} :
          /\ responses' = Append(responses, resp)
          /\ result' = IF f = "get_version" THEN core_get_version(resp)
                       ELSE core_switch_proxy(resp)
          /\ outcomes' = Append(outcomes, result')
    /\ epc' = "done"
    /\ UNCHANGED <<op_kind, max_attempts, attempt, last_error, sleeps>>
    /\ UNCHANGED notRetry

RetryStart ==
    /\ op_kind \in {"op", "sync", "get", "core"}
    /\ max_attempts \in 0..MaxAttemptsBound
    /\ attempt = 0
    /\ last_error = "None"
    /\ epc = "call"
    /\ outcomes = <<>>
    /\ responses = <<>>
    /\ sleeps = 0
    /\ result = NoResult

RetryNext ==
    \/ InvokeOperation
    \/ ClientGetRequest
    \/ BackoffSleep
    \/ LoopExit
    \/ CoreRequest

\* No call in progress on the retry executor.
RetryIdle ==
    /\ op_kind = "op" /\ max_attempts = 0 /\ attempt = 0 /\ last_error = "None"
    /\ epc = "done" /\ outcomes = <<>> /\ responses = <<>> /\ sleeps = 0
    /\ result = NoResult

(***************************************************************************)
(* Text.  A Rust string is a sequence of one-character strings; the model  *)
(* uses ASCII only, so a byte index is a character index.                  *)
(***************************************************************************)
UpperChars == <<"A","B","C","D","E","F","G","H","I","J","K","L","M",
                "N","O","P","Q","R","S","T","U","V","W","X","Y","Z">>
LowerChars == <<"a","b","c","d","e","f","g","h","i","j","k","l","m",
                "n","o","p","q","r","s","t","u","v","w","x","y","z">>
DigitChars == <<"0","1","2","3","4","5","6","7","8","9">>
HexChars == <<"0","1","2","3","4","5","6","7","8","9","a","b","c","d","e","f">>

IndexIn(c, table) == CHOOSE i \in 1..Len(table) : table[i] = c
IsIn(c, table) == \E i \in 1..Len(table) : table[i] = c

to_lower_char(c) == IF IsIn(c, UpperChars) THEN LowerChars[IndexIn(c, UpperChars)] ELSE c

\* str::to_lowercase
to_lowercase(s) == [i \in 1..Len(s) |-> to_lower_char(s[i])]

\* str::eq_ignore_ascii_case
eq_ignore_ascii_case(a, b) == to_lowercase(a) = to_lowercase(b)

\* str::ends_with
ends_with(s, suffix) ==
    /\ Len(suffix) <= Len(s)
    /\ SubSeq(s, Len(s) - Len(suffix) + 1, Len(s)) = suffix

\* str::contains with a string pattern
contains(s, sub) ==
    \E i \in 0..(Len(s) - Len(sub)) : SubSeq(s, i + 1, i + Len(sub)) = sub

\* str::contains with a char pattern
contains_char(s, c) == \E i \in 1..Len(s) : s[i] = c

\* str::split(c).collect(): the segments between the occurrences of c
RECURSIVE split(_, _)
split(s, c) ==
    IF ~contains_char(s, c) THEN <<s>>
    ELSE LET i == CHOOSE k \in 1..Len(s) :
                    s[k] = c /\ \A j \in 1..(k - 1) : s[j] # c
         IN <<SubSeq(s, 1, i - 1)>> \o split(SubSeq(s, i + 1, Len(s)), c)

\* str::trim (the model's only whitespace is the space)
RECURSIVE trim(_)
trim(s) ==
    IF s # <<>> /\ s[1] \in {" ", "\n", "\t"} THEN trim(Tail(s))
    ELSE IF s # <<>> /\ s[Len(s)] \in {" ", "\n", "\t"}
         THEN trim(SubSeq(s, 1, Len(s) - 1))
    ELSE s

NoneInt == -1

\* The digits of s as a number, None when a character is no digit or the
\* value exceeds max.
RECURSIVE parse_digits(_, _, _)
parse_digits(s, acc, max) ==
    IF s = <<>> THEN acc
    ELSE IF ~IsIn(s[1], DigitChars) THEN NoneInt
    ELSE LET v == acc * 10 + (IndexIn(s[1], DigitChars) - 1) IN
         IF v > max THEN NoneInt ELSE parse_digits(Tail(s), v, max)

\* str::parse::<u8/u16>(): an optional '+', then at least one digit
parse_uint(s, max) ==
    LET body == IF s # <<>> /\ s[1] = "+" THEN Tail(s) ELSE s IN
    IF body = <<>> THEN NoneInt ELSE parse_digits(body, 0, max)

U8Max == 255
U16Max == 65535

(***************************************************************************)
(* IP addresses.  An address is [fam, octets]: 4 or 16 bytes.  NoIp is a   *)
(* text that does not parse.                                               *)
(***************************************************************************)
NoIp == [fam |-> 0, octets |-> <<>>]

\* One decimal octet of Ipv4Addr::from_str: 1 to 3 digits, no leading zero
parse_v4_octet(s) ==
    IF Len(s) = 0 \/ Len(s) > 3 THEN NoneInt
    ELSE IF Len(s) > 1 /\ s[1] = "0" THEN NoneInt
    ELSE parse_digits(s, 0, U8Max)

\* Ipv4Addr::from_str
parse_ipv4(s) ==
    LET parts == split(s, ".") IN
    IF Len(parts) # 4 THEN NoIp
    ELSE LET o == [i \in 1..4 |-> parse_v4_octet(parts[i])] IN
         IF \E i \in 1..4 : o[i] = NoneInt THEN NoIp
         ELSE [fam |-> 4, octets |-> o]

\* One group of Ipv6Addr::from_str: 1 to 4 hex digits, as its two bytes
RECURSIVE parse_hex(_, _)
parse_hex(s, acc) ==
    IF s = <<>> THEN acc
    ELSE LET c == to_lower_char(s[1]) IN
         IF ~IsIn(c, HexChars) THEN NoneInt
         ELSE parse_hex(Tail(s), acc * 16 + (IndexIn(c, HexChars) - 1))

parse_v6_group(s) ==
    IF Len(s) = 0 \/ Len(s) > 4 THEN NoneInt ELSE parse_hex(s, 0)

\* The groups of a colon-separated run ("" is no group at all)
v6_groups(s) ==
    IF s = <<>> THEN <<>>
    ELSE LET parts == split(s, ":") IN [i \in 1..Len(parts) |-> parse_v6_group(parts[i])]

RECURSIVE group_bytes(_)
group_bytes(gs) ==
    IF gs = <<>> THEN <<>>
    ELSE <<gs[1] \div 256, gs[1] % 256>> \o group_bytes(Tail(gs))

\* Ipv6Addr::from_str for the forms without an embedded IPv4 tail: eight
\* groups, or fewer around a single "::"
parse_ipv6(s) ==
    LET dbl == {i \in 1..(Len(s) - 1) : s[i] = ":" /\ s[i + 1] = ":"} IN
    IF dbl = {} THEN
        LET gs == v6_groups(s) IN
        IF Len(gs) # 8 \/ \E i \in 1..Len(gs) : gs[i] = NoneInt THEN NoIp
        ELSE [fam |-> 6, octets |-> group_bytes(gs)]
    ELSE IF Cardinality(dbl) > 1 THEN NoIp
    ELSE LET i == CHOOSE k \in dbl : TRUE
             head == v6_groups(SubSeq(s, 1, i - 1))
             tail == v6_groups(SubSeq(s, i + 2, Len(s)))
             gs == head \o tail
         IN IF Len(gs) > 7 \/ \E k \in 1..Len(gs) : gs[k] = NoneInt THEN NoIp
            ELSE [fam |-> 6,
                  octets |-> group_bytes(head
                                \o [k \in 1..(8 - Len(gs)) |-> 0]
                                \o tail)]

\* IpAddr::from_str: an IPv4 address, else an IPv6 address
parse_ip(s) ==
    IF parse_ipv4(s) # NoIp THEN parse_ipv4(s) ELSE parse_ipv6(s)

(***************************************************************************)
(* Fixed-width words as bit sequences, most significant bit first.         *)
(***************************************************************************)
RECURSIVE to_bits(_, _)
to_bits(n, w) == IF w = 0 THEN <<>> ELSE Append(to_bits(n \div 2, w - 1), n % 2)

\* u32::from(Ipv4Addr)
u32_from(octets) ==
    to_bits(octets[1], 8) \o to_bits(octets[2], 8) \o to_bits(octets[3], 8)
        \o to_bits(octets[4], 8)

\* !0 of a w-bit word
all_ones(w) == [i \in 1..w |-> 1]

\* a << n on a word (n smaller than the width)
shl(a, n) == [i \in 1..Len(a) |-> IF i + n <= Len(a) THEN a[i + n] ELSE 0]

\* a & b
bit_and(a, b) == [i \in 1..Len(a) |-> IF a[i] = 1 /\ b[i] = 1 THEN 1 ELSE 0]

(***************************************************************************)
(* Rule matching: src/src/rules.rs                                         *)
(***************************************************************************)
OkB(b) == [tag |-> "Ok", val |-> b]

\* RuleEngine::is_ip_in_cidr
is_ip_in_cidr(ip, cidr) ==
    LET parts == split(cidr, "/") IN
    IF Len(parts) # 2 THEN Err("Rules")
    ELSE LET network_ip == parse_ip(parts[1])
             prefix_len == parse_uint(parts[2], U8Max)
         IN
         IF network_ip = NoIp THEN Err("Rules")
         ELSE IF prefix_len = NoneInt THEN Err("Rules")
         ELSE IF ip.fam = 4 /\ network_ip.fam = 4 THEN
             IF prefix_len > 32 THEN Err("Rules")
             ELSE LET mask == IF prefix_len = 0 THEN to_bits(0, 32)
                              ELSE shl(all_ones(32), 32 - prefix_len)
                  IN OkB(bit_and(u32_from(ip.octets), mask)
                            = bit_and(u32_from(network_ip.octets), mask))
         ELSE IF ip.fam = 6 /\ network_ip.fam = 6 THEN
             IF prefix_len > 128 THEN Err("Rules")
             ELSE LET full_bytes == prefix_len \div 8
                      remaining_bits == prefix_len % 8
                  IN
                  IF SubSeq(ip.octets, 1, full_bytes)
                        # SubSeq(network_ip.octets, 1, full_bytes)
                  THEN OkB(FALSE)
                  ELSE IF remaining_bits > 0 /\ full_bytes < 16
                  THEN LET mask == shl(all_ones(8), 8 - remaining_bits) IN
                       OkB(bit_and(to_bits(ip.octets[full_bytes + 1], 8), mask)
                             = bit_and(to_bits(network_ip.octets[full_bytes + 1], 8), mask))
                  ELSE OkB(TRUE)
         ELSE OkB(FALSE)

\* RuleEngine::match_domain
match_domain(rule, target) == OkB(eq_ignore_ascii_case(rule.payload, target))

\* RuleEngine::match_domain_suffix
match_domain_suffix(rule, target) ==
    LET suffix == rule.payload IN
    OkB(/\ ends_with(to_lowercase(target), to_lowercase(suffix))
        /\ \/ Len(target) = Len(suffix)
           \/ target[Len(target) - Len(suffix)] = ".")

\* RuleEngine::match_domain_keyword
match_domain_keyword(rule, target) ==
    OkB(contains(to_lowercase(target), to_lowercase(rule.payload)))

\* RuleEngine::match_geoip: no database, never a match
match_geoip(rule, target) == OkB(FALSE)

\* RuleEngine::match_ip_cidr
match_ip_cidr(rule, target) ==
    IF parse_ip(target) # NoIp THEN is_ip_in_cidr(parse_ip(target), rule.payload)
    ELSE OkB(FALSE)

\* RuleEngine::match_dst_port; port is NoneInt for None
match_dst_port(rule, port) ==
    IF port = NoneInt THEN OkB(FALSE)
    ELSE IF contains_char(rule.payload, "-") THEN
        LET parts == split(rule.payload, "-") IN
        IF Len(parts) = 2 /\ parse_uint(parts[1], U16Max) # NoneInt
                          /\ parse_uint(parts[2], U16Max) # NoneInt
        THEN OkB(port >= parse_uint(parts[1], U16Max)
                 /\ port <= parse_uint(parts[2], U16Max))
        ELSE OkB(FALSE)
    ELSE IF contains_char(rule.payload, ",") THEN
        LET parts == split(rule.payload, ",") IN
        OkB(\E i \in 1..Len(parts) : parse_uint(trim(parts[i]), U16Max) = port)
    ELSE OkB(parse_uint(rule.payload, U16Max) = port)

RuleTypes == {"Domain", "DomainSuffix", "DomainKeyword", "Geoip", "IpCidr",
              "SrcIpCidr", "SrcPort", "DstPort", "ProcessName", "ProcessPath",
              "Script", "RuleSet", "Match"}

\* A mutation of is_rule_match: DomainSuffix rules are never matched.
is_rule_match_mutant(rule, target, port) ==
    CASE rule.rule_type = "Domain" -> match_domain(rule, target)
      [] rule.rule_type = "DomainKeyword" -> match_domain_keyword(rule, target)
      [] rule.rule_type = "Geoip" -> match_geoip(rule, target)
      [] rule.rule_type = "IpCidr" -> match_ip_cidr(rule, target)
      [] rule.rule_type = "DstPort" -> match_dst_port(rule, port)
      [] rule.rule_type = "Match" -> OkB(TRUE)
      [] OTHER -> OkB(FALSE)

\* RuleEngine::is_rule_match
is_rule_match(rule, target, port) ==
    CASE rule.rule_type = "Domain" -> match_domain(rule, target)
      [] rule.rule_type = "DomainSuffix" -> match_domain_suffix(rule, target)
      [] rule.rule_type = "DomainKeyword" -> match_domain_keyword(rule, target)
      [] rule.rule_type = "Geoip" -> match_geoip(rule, target)
      [] rule.rule_type = "IpCidr" -> match_ip_cidr(rule, target)
      [] rule.rule_type = "DstPort" -> match_dst_port(rule, port)
      [] rule.rule_type = "Match" -> OkB(TRUE)
      [] OTHER -> OkB(FALSE)

(***************************************************************************)
(* The rules and queries the model is run on.                              *)
(***************************************************************************)
TxtAIo == <<"a", ".", "i", "o">>
TxtWwwAIo == <<"w", "w", "w", ".", "a", ".", "i", "o">>
TxtWwwAIoUpper == <<"W", "W", "W", ".", "A", ".", "I", "O">>
TxtAIoCn == <<"a", ".", "i", "o", ".", "c", "n">>
TxtXaIo == <<"x", "a", ".", "i", "o">>
TxtIp10009 == <<"1", "0", ".", "0", ".", "0", ".", "9">>
TxtIp10019 == <<"1", "0", ".", "0", ".", "1", ".", "9">>
TxtCidr24 == <<"1", "0", ".", "0", ".", "0", ".", "0", "/", "2", "4">>
TxtCidr33 == <<"1", "0", ".", "0", ".", "0", ".", "0", "/", "3", "3">>
TxtPorts80to90 == <<"8", "0", "-", "9", "0">>
TxtPorts80and443 == <<"8", "0", ",", " ", "4", "4", "3">>

Rule(t, payload, proxy) == [rule_type |-> t, payload |-> payload, proxy |-> proxy]

RuleUniverse ==
    {Rule("DomainSuffix", TxtAIo, "Proxy"),
     Rule("Domain", TxtWwwAIo, "Direct"),
     Rule("DomainKeyword", TxtXaIo, "Keyword"),
     Rule("IpCidr", TxtCidr24, "Lan"),
     Rule("IpCidr", TxtCidr33, "Bad"),
     Rule("DstPort", TxtPorts80to90, "Web"),
     Rule("DstPort", TxtPorts80and443, "Tls"),
     Rule("Match", <<>>, "Reject")}

Targets == {TxtWwwAIo, TxtWwwAIoUpper, TxtAIo, TxtAIoCn, TxtXaIo,
            TxtIp10009, TxtIp10019}

Ports == {NoneInt, 85, 443}

\* The queries match_rule is called with: every target without a port, and
\* a domain and an address with each port
Queries ==
    (Targets \X {NoneInt}) \cup ({TxtAIoCn, TxtIp10019} \X Ports)

NoMatch == 0

\* is_rule_match on the model's rules and queries
MatchTable ==
    [r \in RuleUniverse |->
        [q \in Queries |-> is_rule_match(r, q[1], q[2])]]

\* The loop of RuleEngine::match_rule from index i on: Ok(index of the first
\* matching rule), Ok(NoMatch), or the first error met before a match.
RECURSIVE match_from(_, _, _, _)
match_from(rules, i, target, port) ==
    IF i > Len(rules) THEN [tag |-> "Ok", val |-> NoMatch]
    ELSE LET m == match_memo[rules[i]][<<target, port>>] IN
         IF m.tag = "Err" THEN m
         ELSE IF m.val THEN [tag |-> "Ok", val |-> i]
         ELSE match_from(rules, i + 1, target, port)

\* Every list of at most n rules
RECURSIVE RuleLists(_)
RuleLists(n) ==
    IF n = 0 THEN {<<>>}
    ELSE RuleLists(n - 1)
         \cup {Append(l, r) : l \in {x \in RuleLists(n - 1) : Len(x) = n - 1},
                              r \in RuleUniverse}

(***************************************************************************)
(* RuleEngine: the cache and its operations.                               *)
(***************************************************************************)
NoRule == Rule("None", <<>>, "")

RulesRes(tag, idx, rule, err) == [tag |-> tag, idx |-> idx, rule |-> rule, err |-> err]

RulesCall(op, target, port, fetched, res) ==
    [op |-> op, target |-> target, port |-> port, fetched |-> fetched, res |-> res]

\* The errors MihomoClient::rules can return: get's Network and Json
FetchErrors == {"Network", "Json"}

\* RuleEngine::refresh_rules; fetch is "ok" or the error of client.rules()
RefreshRules ==
    /\ rules_fetches < MaxFetches
    /\ rules_fetches' = rules_fetches + 1
    /\ \E fetch \in {"ok"} \cup FetchErrors :
          IF fetch = "ok"
          THEN /\ rules_cache' = engine_rules
               /\ cache_valid' = TRUE
               /\ rules_last' = RulesCall("refresh_rules", <<>>, NoneInt, TRUE,
                                          RulesRes("Ok", NoMatch, NoRule, ""))
          ELSE /\ UNCHANGED <<rules_cache, cache_valid>>
               /\ rules_last' = RulesCall("refresh_rules", <<>>, NoneInt, TRUE,
                                          RulesRes("Err", NoMatch, NoRule, fetch))
    /\ UNCHANGED <<engine_rules, match_memo>>
    /\ UNCHANGED notRules

\* What match_rule returns on the cached list `rules`
match_rule_on(rules, target, port) ==
    LET m == match_from(rules, 1, target, port) IN
    IF m.tag = "Err" THEN RulesRes("Err", NoMatch, NoRule, m.val)
    ELSE IF m.val = NoMatch THEN RulesRes("Ok", NoMatch, NoRule, "")
    ELSE RulesRes("Ok", m.val, rules[m.val], "")

\* RuleEngine::match_rule: ensure_rules_cache, then the walk over the cache
MatchRule ==
    \E q \in Queries :
        LET target == q[1]
            port == q[2]
        IN
        IF cache_valid
        THEN /\ rules_last' = RulesCall("match_rule", target, port, FALSE,
                                        match_rule_on(rules_cache, target, port))
             /\ UNCHANGED <<engine_rules, rules_cache, cache_valid, rules_fetches,
                            match_memo>>
             /\ UNCHANGED notRules
        ELSE /\ rules_fetches < MaxFetches
             /\ rules_fetches' = rules_fetches + 1
             /\ \E fetch \in {"ok"} \cup FetchErrors :
                   IF fetch = "ok"
                   THEN /\ rules_cache' = engine_rules
                        /\ cache_valid' = TRUE
                        /\ rules_last' = RulesCall("match_rule", target, port, TRUE,
                                             match_rule_on(engine_rules, target, port))
                   ELSE /\ UNCHANGED <<rules_cache, cache_valid>>
                        /\ rules_last' = RulesCall("match_rule", target, port, TRUE,
                                             RulesRes("Err", NoMatch, NoRule, fetch))
             /\ UNCHANGED <<engine_rules, match_memo>>
             /\ UNCHANGED notRules

\* ensure_rules_cache always fetching
ensure_rules_cache_mutant(valid) == TRUE

\* RuleEngine::ensure_rules_cache: whether it calls refresh_rules
ensure_rules_cache(valid) == ~valid

\* RuleEngine::get_rules, get_rule_stats, find_rules_by_proxy and
\* find_rules_by_type: ensure_rules_cache, then the answer from the cache
RulesQuery ==
    \E q \in ({"get_rules", "get_rule_stats"} \X {<<>>})
              \cup ({"find_rules_by_proxy"} \X {<<"Proxy">>, <<"Lan">>, <<"Other">>})
              \cup ({"find_rules_by_type"} \X {<<"IpCidr">>, <<"Match">>}) :
        LET op == q[1]
            arg == q[2]
            count(rules, keep(_)) == Cardinality({i \in DOMAIN rules : keep(rules[i])})
            answer(rules) ==
                LET by_proxy(r) == r.proxy = arg[1]
                    by_type(r) == r.rule_type = arg[1]
                IN CASE op = "get_rules" -> rules
                     [] op = "get_rule_stats" ->
                          [total_rules |-> Len(rules),
                           type_counts |->
                               [t \in {rules[i].rule_type : i \in DOMAIN rules} |->
                                   LET same(r) == r.rule_type = t IN count(rules, same)],
                           proxy_counts |->
                               [x \in {rules[i].proxy : i \in DOMAIN rules} |->
                                   LET same(r) == r.proxy = x IN count(rules, same)]]
                     [] op = "find_rules_by_proxy" -> SelectSeq(rules, by_proxy)
                     [] op = "find_rules_by_type" -> SelectSeq(rules, by_type)
            returned(fetched, tag, found, err) ==
                RulesCall(op, arg, NoneInt, fetched,
                          [tag |-> tag, found |-> found, err |-> err])
        IN
        IF ~ensure_rules_cache(cache_valid)
        THEN /\ rules_last' = returned(FALSE, "Ok", answer(rules_cache), "")
             /\ UNCHANGED <<engine_rules, rules_cache, cache_valid, rules_fetches,
                            match_memo>>
             /\ UNCHANGED notRules
        ELSE /\ rules_fetches < MaxFetches
             /\ rules_fetches' = rules_fetches + 1
             /\ \E fetch \in {"ok"} \cup FetchErrors :
                   IF fetch = "ok"
                   THEN /\ rules_cache' = engine_rules
                        /\ cache_valid' = TRUE
                        /\ rules_last' = returned(TRUE, "Ok", answer(engine_rules), "")
                   ELSE /\ UNCHANGED <<rules_cache, cache_valid>>
                        /\ rules_last' = returned(TRUE, "Err", <<>>, fetch)
             /\ UNCHANGED <<engine_rules, match_memo>>
             /\ UNCHANGED notRules

\* The engine's configuration is reloaded without its first rule
EngineRulesChange ==
    /\ engine_rules # <<>>
    /\ engine_rules' = Tail(engine_rules)
    /\ UNCHANGED <<rules_cache, cache_valid, rules_fetches, rules_last, match_memo>>
    /\ UNCHANGED notRules

RulesStart ==
    /\ engine_rules \in RuleLists(MaxRules)
    /\ rules_cache = <<>>
    /\ cache_valid = FALSE
    /\ rules_fetches = 0
    /\ rules_last = RulesCall("none", <<>>, NoneInt, FALSE,
                              RulesRes("None", NoMatch, NoRule, ""))
    /\ match_memo = MatchTable

\* A rule engine nobody uses.
RulesIdle ==
    /\ engine_rules = <<>>
    /\ rules_cache = <<>>
    /\ cache_valid = FALSE
    /\ rules_fetches = 0
    /\ rules_last = RulesCall("none", <<>>, NoneInt, FALSE,
                              RulesRes("None", NoMatch, NoRule, ""))
    /\ match_memo = <<>>

RulesNext ==
    \/ RefreshRules
    \/ MatchRule
    \/ RulesQuery
    \/ EngineRulesChange

(***************************************************************************)
(* The engine's proxy table as GET /proxies serves it.  An item is a       *)
(* ProxyItem: its type string, its member list `all` and its optional      *)
(* `now` (<<>> is None, <<n>> is Some(n)).                                 *)
(***************************************************************************)
\* ProxyManager::new: cache_ttl is 30 seconds
CacheTtl == 30

\* How far the clock moves in one step, in seconds
TickSteps == {15, 30}

\* The strings serde accepts for ProxyType and for ProxyGroupType
ProxyTypeNames ==
    {"http", "https", "socks5", "ss", "ssr", "vmess", "vless", "trojan",
     "hysteria", "wireguard", "Compatible", "Direct", "Reject"}

ProxyGroupTypeNames == {"Selector", "URLTest", "Fallback", "LoadBalance", "Relay"}

Item(t, all, now) == [item_type |-> t, all |-> all, now |-> now]

\* three nodes, a selector over them and a second group
PayloadA ==
    ("X" :> Item("Direct", <<>>, <<>>)) @@ ("Y" :> Item("Direct", <<>>, <<>>))
    @@ ("Z" :> Item("Reject", <<>>, <<>>))
    @@ ("G" :> Item("Selector", <<"X", "Y", "Z">>, <<"X">>))
    @@ ("H" :> Item("Fallback", <<"Y", "Z">>, <<"Y">>))

\* two nodes and a group that reports no `now`
PayloadB ==
    ("X" :> Item("Direct", <<>>, <<>>)) @@ ("Y" :> Item("Direct", <<>>, <<>>))
    @@ ("G" :> Item("URLTest", <<"X", "Y">>, <<>>))

\* a node, a node of a type the client does not know, a group without members
PayloadC ==
    ("X" :> Item("Direct", <<>>, <<>>)) @@ ("W" :> Item("Shadowsocks", <<>>, <<>>))
    @@ ("G" :> Item("Selector", <<>>, <<>>))

EnginePayloads == {PayloadA, PayloadB, PayloadC}

\* Whether the engine answers PUT /proxies/<g> {"name": n} with 2xx: g is
\* one of its groups and n one of the members
EngineAccepts(eng, g, n) ==
    g \in DOMAIN eng /\ (\E i \in DOMAIN eng[g].all : eng[g].all[i] = n)

(***************************************************************************)
(* ProxyItem conversions and the two client calls built on them.           *)
(***************************************************************************)
is_group(item) == item.all # <<>>

is_node(item) == item.all = <<>>

\* Option<ProxyNode>: <<>> or <<node>>
to_proxy_node(item) ==
    IF is_node(item) /\ item.item_type \in ProxyTypeNames
    THEN <<[proxy_type |-> item.item_type]>>
    ELSE <<>>

\* Option<ProxyGroup>: <<>> or <<group>>; now is unwrap_or_default
to_proxy_group(item) ==
    IF is_group(item) /\ item.item_type \in ProxyGroupTypeNames
    THEN <<[group_type |-> item.item_type,
            now |-> IF item.now = <<>> THEN "" ELSE item.now[1],
            all |-> item.all]>>
    ELSE <<>>

\* MihomoClient::proxies on a decoded payload
proxies(payload) ==
    [n \in {k \in DOMAIN payload : to_proxy_node(payload[k]) # <<>>} |->
        to_proxy_node(payload[n])[1]]

\* MihomoClient::proxy_groups on a decoded payload
proxy_groups(payload) ==
    [n \in {k \in DOMAIN payload : to_proxy_group(payload[k]) # <<>>} |->
        to_proxy_group(payload[n])[1]]

(***************************************************************************)
(* ProxyManager.  cache_elapsed is cache_updated_at.elapsed() in seconds,  *)
(* NoneInt while cache_updated_at is None; it stops counting at CacheTtl,  *)
(* past which the cache is stale whatever the exact age.                   *)
(***************************************************************************)
\* A mutation of is_cache_valid: the cache is never taken as fresh.
is_cache_valid_mutant(elapsed) == FALSE

\* ProxyManager::is_cache_valid
is_cache_valid(elapsed) == elapsed # NoneInt /\ elapsed < CacheTtl

\* A mutation of all_contains: every name passes for a member.
all_contains_mutant(all, name) == TRUE

\* group.all.contains(name)
all_contains(all, name) == \E i \in DOMAIN all : all[i] = name

\* The error a GET /proxies ends in when it fails: get answers every failed
\* send and every status outside 2xx with a Network error
GetErrors == {"Network"}

\* The manager's state together with the engine's, as one step of a call
\* leaves it: err is "" or the error the step returned, gets the number of
\* GET /proxies sent.
Step(pc, gc, el, eng, err, gets) ==
    [pc |-> pc, gc |-> gc, el |-> el, eng |-> eng, err |-> err, gets |-> gets]

\* ProxyManager::refresh_cache: every way it can end.  The first GET fails;
\* or it succeeds and proxy_cache is assigned, and the second GET, which
\* sees the table the engine has by then, fails or succeeds.
refresh_cache(pc, gc, el, eng) ==
    {Step(pc, gc, el, eng, e, 1) : e \in GetErrors}
    \cup UNION {
        {Step(proxies(eng), gc, el, mid, e, 2) : e \in GetErrors}
        \cup {Step(proxies(eng), proxy_groups(mid), 0, mid, "", 2)}
        : mid \in {eng} \cup EnginePayloads}

\* ProxyManager::ensure_cache
ensure_cache(pc, gc, el, eng) ==
    IF is_cache_valid(el) THEN {Step(pc, gc, el, eng, "", 0)}
    ELSE refresh_cache(pc, gc, el, eng)

\* What a call returns with the state it leaves
Ret(s, tag, err, put) ==
    [pc |-> s.pc, gc |-> s.gc, el |-> s.el, eng |-> s.eng, gets |-> s.gets,
     tag |-> tag, err |-> err, put |-> put]

\* ProxyManager::switch_proxy: every way it can end
switch_proxy(pc, gc, el, eng, group_name, proxy_name) ==
    UNION {
        IF s.err # "" THEN {Ret(s, "Err", s.err, FALSE)}
        ELSE IF group_name \notin DOMAIN s.gc THEN {Ret(s, "Err", "Proxy", FALSE)}
        ELSE IF ~all_contains(s.gc[group_name].all, proxy_name)
             THEN {Ret(s, "Err", "Proxy", FALSE)}
        ELSE \* PUT /proxies/<group>: not answered 2xx, or answered 2xx
             {Ret(s, "Err", "Network", TRUE)}
             \cup (IF EngineAccepts(s.eng, group_name, proxy_name)
                   THEN {Ret([s EXCEPT !.gc[group_name].now = proxy_name,
                                       !.eng[group_name].now = <<proxy_name>>],
                             "Ok", "", TRUE)}
                   ELSE {})
        : s \in ensure_cache(pc, gc, el, eng)}

\* The probe results a run of test_multiple_proxy_delays can collect: the
\* delay of each node in ms, NoneInt for a failed probe
ProbeScenarios ==
    {("X" :> 300) @@ ("Y" :> 120) @@ ("Z" :> 120),
     ("X" :> 120) @@ ("Y" :> 300) @@ ("Z" :> NoneInt),
     ("X" :> NoneInt) @@ ("Y" :> NoneInt) @@ ("Z" :> NoneInt)}

\* The orders in which a HashMap with the keys of `all` can be iterated
IterationOrders(all) ==
    LET keys == {all[i] : i \in DOMAIN all} IN
    {o \in [1..Cardinality(keys) -> keys] :
        \A i, j \in DOMAIN o : i # j => o[i] # o[j]}

\* A stand-in for best_proxy that takes the first result, failed or not
best_proxy_mutant(order, i, probes, best) == order[1]

\* The scan of auto_select_fastest_proxy over the results from position i:
\* best is "" while no successful result has been seen
RECURSIVE best_proxy(_, _, _, _)
best_proxy(order, i, probes, best) ==
    IF i > Len(order) THEN best
    ELSE LET name == order[i] IN
         IF probes[name] = NoneInt THEN best_proxy(order, i + 1, probes, best)
         ELSE IF best = "" THEN best_proxy(order, i + 1, probes, name)
         ELSE IF probes[name] < probes[best]
              THEN best_proxy(order, i + 1, probes, name)
         ELSE best_proxy(order, i + 1, probes, best)

\* What auto_select_fastest_proxy returns: the result r of its last step,
\* the GETs sent before that step, the members probed, the node chosen
AutoRet(r, gets, members, best) ==
    [pc |-> r.pc, gc |-> r.gc, el |-> r.el, eng |-> r.eng, gets |-> gets + r.gets,
     tag |-> r.tag, err |-> r.err, put |-> r.put, members |-> members, best |-> best]

\* ProxyManager::auto_select_fastest_proxy: every way it can end, with the
\* members probed and the node chosen.  Time passes while the probes run.
auto_select_fastest_proxy(pc, gc, el, eng, group_name, probes) ==
    UNION {
        IF s.err # "" THEN {AutoRet(Ret(s, "Err", s.err, FALSE), 0, <<>>, "")}
        ELSE IF group_name \notin DOMAIN s.gc
             THEN {AutoRet(Ret(s, "Err", "Proxy", FALSE), 0, <<>>, "")}
        ELSE IF s.gc[group_name].all = <<>>
             THEN {AutoRet(Ret(s, "Err", "Proxy", FALSE), 0, <<>>, "")}
        ELSE LET all == s.gc[group_name].all IN
             UNION {
                 LET best == best_proxy(order, 1, probes, "") IN
                 IF best = ""
                 THEN {AutoRet(Ret(s, "Err", "Proxy", FALSE), 0, all, "")}
                 ELSE UNION {
                          {AutoRet(r, s.gets, all, best)
                           : r \in switch_proxy(s.pc, s.gc, later, s.eng,
                                                group_name, best)}
                          : later \in {s.el} \cup
                                {IF s.el + d > CacheTtl THEN CacheTtl ELSE s.el + d
                                 : d \in TickSteps}}
                 : order \in IterationOrders(all)}
        : s \in ensure_cache(pc, gc, el, eng)}

NoCall ==
    [op |-> "none", group |-> "", node |-> "", tag |-> "None", err |-> "",
     gets |-> 0, put |-> FALSE, probes |-> <<>>, members |-> <<>>]

\* The record of a call: what was asked and what came back
ProxyCall(op, group, node, r, probes, members) ==
    [op |-> op, group |-> group, node |-> node, tag |-> r.tag, err |-> r.err,
     gets |-> r.gets, put |-> r.put, probes |-> probes, members |-> members]

\* The manager and the engine take the state a call left
Leaves(r) ==
    /\ proxy_cache' = r.pc
    /\ group_cache' = r.gc
    /\ cache_elapsed' = r.el
    /\ engine_items' = r.eng

\* ProxyManager::get_proxies (get_proxy, get_proxy_groups and
\* get_proxy_group change the state in the same way)
GetProxies ==
    /\ \E s \in ensure_cache(proxy_cache, group_cache, cache_elapsed, engine_items) :
          LET r == Ret(s, IF s.err = "" THEN "Ok" ELSE "Err", s.err, FALSE) IN
          /\ Leaves(r)
          /\ proxy_last' = ProxyCall("get_proxies", "", "", r, <<>>, <<>>)
    /\ UNCHANGED notProxy

\* ProxyManager::force_refresh: cache_updated_at = None, then refresh_cache
ForceRefresh ==
    /\ \E s \in refresh_cache(proxy_cache, group_cache, NoneInt, engine_items) :
          LET r == Ret(s, IF s.err = "" THEN "Ok" ELSE "Err", s.err, FALSE) IN
          /\ Leaves(r)
          /\ proxy_last' = ProxyCall("force_refresh", "", "", r, <<>>, <<>>)
    /\ UNCHANGED notProxy

GroupArgs == {"G"}
NodeArgs == {"X", "Y", "Z"}

SwitchProxyCall(g, n) ==
    /\ \E r \in switch_proxy(proxy_cache, group_cache, cache_elapsed, engine_items,
                             g, n) :
          /\ Leaves(r)
          /\ proxy_last' = ProxyCall("switch_proxy", g, n, r, <<>>, <<>>)
    /\ UNCHANGED notProxy

SwitchProxy == \E g \in GroupArgs, n \in NodeArgs : SwitchProxyCall(g, n)

AutoSelectFastestProxy ==
    /\ \E g \in GroupArgs, probes \in ProbeScenarios :
          \E r \in auto_select_fastest_proxy(proxy_cache, group_cache, cache_elapsed,
                                             engine_items, g, probes) :
              /\ Leaves(r)
              /\ proxy_last' = ProxyCall("auto_select_fastest_proxy", g, r.best, r,
                                         probes, r.members)
    /\ UNCHANGED notProxy

\* Time passes
Tick ==
    /\ cache_elapsed # NoneInt
    /\ cache_elapsed < CacheTtl
    /\ \E d \in TickSteps :
          cache_elapsed' = IF cache_elapsed + d > CacheTtl THEN CacheTtl
                           ELSE cache_elapsed + d
    /\ UNCHANGED <<engine_items, proxy_cache, group_cache, proxy_last>>
    /\ UNCHANGED notProxy

\* The engine reloads its configuration
EngineChange ==
    /\ engine_items' \in EnginePayloads \ {engine_items}
    /\ UNCHANGED <<proxy_cache, group_cache, cache_elapsed, proxy_last>>
    /\ UNCHANGED notProxy

\* ProxyManager::new, in front of an engine with some table
ProxyStart ==
    /\ engine_items \in EnginePayloads
    /\ proxy_cache = <<>>
    /\ group_cache = <<>>
    /\ cache_elapsed = NoneInt
    /\ proxy_last = NoCall

\* No proxy manager
ProxyIdle ==
    /\ engine_items = <<>>
    /\ proxy_cache = <<>>
    /\ group_cache = <<>>
    /\ cache_elapsed = NoneInt
    /\ proxy_last = NoCall

ProxyNext ==
    \/ GetProxies
    \/ ForceRefresh
    \/ SwitchProxy
    \/ AutoSelectFastestProxy
    \/ Tick
    \/ EngineChange

(***************************************************************************)
(* The process supervisor (ServiceManager).  The PID file is <<>> when     *)
(* absent and <<text>> when present; alive is the set of PIDs of running   *)
(* processes; api is what a GET /version sent now would meet.              *)
(***************************************************************************)
\* The largest PID of the model
MaxPid == 2

\* start polls is_running 30 times, one second apart
StartPolls == 30

Pids == 1..MaxPid

ApiStates == {"2xx", "non2xx", "unreachable"}

\* u32::to_string
RECURSIVE to_string(_)
to_string(n) ==
    IF n < 10 THEN <<DigitChars[n + 1]>>
    ELSE to_string(n \div 10) \o <<DigitChars[(n % 10) + 1]>>

\* write_pid_file dropping the last digit
write_pid_file_mutant(pid) == <<to_string(pid \div 10)>>

\* ServiceManager::write_pid_file: the file's content after the write
write_pid_file(pid) == <<to_string(pid)>>

\* ServiceManager::read_pid_file: Option<u32>.  A u32 holds every number of
\* up to nine digits, and no text of the model is longer.
read_pid_file(file) ==
    IF file = <<>> THEN NoneInt ELSE parse_uint(trim(file[1]), 999999999)

\* A mutation of is_process_running: every PID passes for a live process.
is_process_running_mutant(pid, procs) == TRUE

\* ServiceManager::is_process_running
is_process_running(pid, procs) == pid \in procs

\* A mutation of is_running: the PID file alone decides, /version is not asked.
is_running_mutant(file, procs, answer) ==
    LET pid == read_pid_file(file) IN
    IF pid # NoneInt /\ ~is_process_running(pid, procs)
    THEN [running |-> FALSE, file |-> <<>>]
    ELSE [running |-> pid # NoneInt, file |-> file]

\* ServiceManager::is_running: the answer and the PID file it leaves
is_running(file, procs, answer) ==
    LET pid == read_pid_file(file) IN
    IF pid # NoneInt
    THEN IF ~is_process_running(pid, procs)
         THEN [running |-> FALSE, file |-> <<>>]
         ELSE [running |-> IF answer = "unreachable" THEN TRUE ELSE answer = "2xx",
               file |-> file]
    ELSE [running |-> IF answer = "unreachable" THEN FALSE ELSE answer = "2xx",
          file |-> file]

NoSvcCall ==
    [op |-> "none", tag |-> "None", err |-> "", status |-> "", api |-> "",
     child_alive |-> FALSE, pid_read |-> NoneInt]

\* The record of a supervisor call: what it returned, and what held when it
\* returned: the answer /version gave, whether the spawned process was
\* alive, and the PID the PID file named
SvcCall(op, tag, err, status, answer, child_alive, pid_read) ==
    [op |-> op, tag |-> tag, err |-> err, status |-> status, api |-> answer,
     child_alive |-> child_alive, pid_read |-> pid_read]

\* ServiceManager::get_status
GetStatus ==
    /\ sup_pc = "idle"
    /\ LET r == is_running(pid_file, alive, api) IN
       /\ pid_file' = r.file
       /\ svc_last' = SvcCall("get_status", "Ok", "",
                              IF r.running THEN "Running" ELSE "Stopped",
                              api, FALSE, read_pid_file(r.file))
    /\ sup_log' = <<>>
    /\ UNCHANGED <<alive, api, sup_pc, polls, spawned>>
    /\ UNCHANGED notService

\* ServiceManager::start up to the first sleep: the is_running check, the
\* spawn and the write of the PID file
StartBegin ==
    /\ sup_pc = "idle"
    /\ LET r == is_running(pid_file, alive, api) IN
       IF r.running
       THEN /\ pid_file' = r.file
            /\ svc_last' = SvcCall("start", "Err", "Service", "", api, FALSE,
                                   read_pid_file(r.file))
            /\ sup_log' = <<>>
            /\ UNCHANGED <<alive, sup_pc, polls, spawned>>
       ELSE \/ \* spawn fails
               /\ pid_file' = r.file
               /\ svc_last' = SvcCall("start", "Err", "Service", "", api, FALSE,
                                      read_pid_file(r.file))
               /\ sup_log' = <<>>
               /\ UNCHANGED <<alive, sup_pc, polls, spawned>>
            \/ \* spawn gives a new process
               \E p \in Pids \ alive :
                  /\ alive' = alive \cup {p}
                  /\ pid_file' = write_pid_file(p)
                  /\ spawned' = p
                  /\ sup_pc' = "polling"
                  /\ polls' = 0
                  /\ svc_last' = SvcCall("start", "Pending", "", "", api, TRUE, p)
                  /\ sup_log' = <<"spawn">>
    /\ UNCHANGED api
    /\ UNCHANGED notService

\* One round of start's loop: sleep one second, then is_running; after the
\* last round the PID file is removed and start fails
StartPoll ==
    /\ sup_pc = "polling"
    /\ polls < StartPolls
    /\ LET r == is_running(pid_file, alive, api) IN
       IF r.running
       THEN /\ pid_file' = r.file
            /\ sup_pc' = "idle"
            /\ polls' = 0
            /\ svc_last' = SvcCall("start", "Ok", "", "", api, spawned \in alive,
                                   read_pid_file(r.file))
       ELSE IF polls + 1 < StartPolls
       THEN /\ pid_file' = r.file
            /\ polls' = polls + 1
            /\ UNCHANGED <<sup_pc, svc_last>>
       ELSE /\ pid_file' = <<>>
            /\ sup_pc' = "idle"
            /\ polls' = 0
            /\ svc_last' = SvcCall("start", "Err", "Service", "", api,
                                   spawned \in alive, NoneInt)
    /\ sup_log' = Append(sup_log, "poll")
    /\ UNCHANGED <<alive, api, spawned>>
    /\ UNCHANGED notService

\* stop waits for the process five times, and ten times for /version
StopWaits == 5

StopPolls == 10

\* ServiceManager::stop up to its first sleep (the Unix build).  With a PID
\* file that names a live process: SIGTERM, and the first round of the wait
\* finds the process there.  Otherwise straight to the removal of the PID
\* file.  svc_last.pid_read holds the PID the call read.
StopBegin ==
    /\ sup_pc = "idle"
    /\ LET pid == read_pid_file(pid_file) IN
       IF pid # NoneInt /\ is_process_running(pid, alive)
       THEN /\ sup_log' = <<"term", "sleep">>
            /\ sup_pc' = "stop_wait"
            /\ polls' = 1
            /\ svc_last' = SvcCall("stop", "Pending", "", "", api, FALSE, pid)
            /\ UNCHANGED pid_file
       ELSE /\ sup_log' = <<"rmpid">>
            /\ pid_file' = <<>>
            /\ sup_pc' = "stop_poll"
            /\ polls' = 0
            /\ svc_last' = SvcCall("stop", "Pending", "", "", api, FALSE, pid)
    /\ UNCHANGED <<alive, api, spawned>>
    /\ UNCHANGED notService

\* stop after a sleep of its first loop: the next round, or, when the
\* process is gone or the five rounds are over, SIGKILL if the process is
\* still there (the kill can be refused) and the removal of the PID file
StopWait ==
    /\ sup_pc = "stop_wait"
    /\ LET pid == svc_last.pid_read IN
       IF polls < StopWaits /\ is_process_running(pid, alive)
       THEN /\ sup_log' = Append(sup_log, "sleep")
            /\ polls' = polls + 1
            /\ UNCHANGED <<pid_file, alive, sup_pc>>
       ELSE /\ IF is_process_running(pid, alive)
               THEN /\ sup_log' = sup_log \o <<"kill", "rmpid">>
                    /\ alive' \in {alive \ {pid}, alive}
               ELSE /\ sup_log' = Append(sup_log, "rmpid")
                    /\ UNCHANGED alive
            /\ pid_file' = <<>>
            /\ sup_pc' = "stop_poll"
            /\ polls' = 0
    /\ UNCHANGED <<api, spawned, svc_last>>
    /\ UNCHANGED notService

\* One round of stop's second loop: is_running, then a sleep; after the last
\* round stop fails
StopPoll ==
    /\ sup_pc = "stop_poll"
    /\ LET r == is_running(pid_file, alive, api) IN
       /\ pid_file' = r.file
       /\ sup_log' = Append(sup_log, "version")
       /\ IF ~r.running
          THEN /\ sup_pc' = "idle"
               /\ polls' = 0
               /\ svc_last' = SvcCall("stop", "Ok", "", "", api, FALSE,
                                      svc_last.pid_read)
          ELSE IF polls + 1 < StopPolls
          THEN /\ polls' = polls + 1
               /\ UNCHANGED <<sup_pc, svc_last>>
          ELSE /\ sup_pc' = "idle"
               /\ polls' = 0
               /\ svc_last' = SvcCall("stop", "Err", "Service", "", api, FALSE,
                                      svc_last.pid_read)
    /\ UNCHANGED <<alive, api, spawned>>
    /\ UNCHANGED notService

\* A process ends
ProcExit ==
    /\ \E p \in alive : alive' = alive \ {p}
    /\ UNCHANGED <<pid_file, api, sup_pc, polls, spawned, svc_last, sup_log>>
    /\ UNCHANGED notService

\* The controller address starts or stops answering
ApiChange ==
    /\ api' \in ApiStates \ {api}
    /\ UNCHANGED <<pid_file, alive, sup_pc, polls, spawned, svc_last, sup_log>>
    /\ UNCHANGED notService

\* What a supervisor can find on disk: no PID file, the PID file of an
\* earlier run, one with a trailing newline, or one that is no number
PidFilesFound ==
    {<<>>, <<<<"x">>>>, <<to_string(1) \o <<"\n">>>>}
    \cup {write_pid_file(p) : p \in Pids}

ServiceStart ==
    /\ pid_file \in PidFilesFound
    /\ alive \in SUBSET Pids
    /\ api \in ApiStates
    /\ sup_pc = "idle"
    /\ polls = 0
    /\ spawned = NoneInt
    /\ svc_last = NoSvcCall
    /\ sup_log = <<>>

\* No supervisor
ServiceIdle ==
    /\ pid_file = <<>>
    /\ alive = {}
    /\ api = "unreachable"
    /\ sup_pc = "idle"
    /\ polls = 0
    /\ spawned = NoneInt
    /\ svc_last = NoSvcCall
    /\ sup_log = <<>>

ServiceNext ==
    \/ GetStatus
    \/ StartBegin
    \/ StartPoll
    \/ StopBegin
    \/ StopWait
    \/ StopPoll
    \/ ProcExit
    \/ ApiChange

(***************************************************************************)
(* ServiceManager::upgrade_to_version.  The calls it makes (is_running,    *)
(* stop, backup_current_binary, download_and_install, start, fs::copy)     *)
(* are steps whose outcome the environment decides; up_log records each    *)
(* step taken and whether it succeeded.  A file's content is "none" when   *)
(* the file does not exist.                                                *)
(***************************************************************************)
BinaryPaths == {"custom", "default"}

UpPending == [tag |-> "Pending", kind |-> "", parts |-> {}]

UpOk == [tag |-> "Ok", kind |-> "", parts |-> {}]

\* The error of the step that failed, returned as it is
UpErr(step) == [tag |-> "Err", kind |-> "StepError", parts |-> {step}]

\* A stand-in for rollback_failed that drops the rollback error
rollback_failed_mutant(e, rollback_err) == UpErr(e)

\* ServiceError("... 启动错误: {e}, 回滚错误: {rollback_err}")
rollback_failed(e, rollback_err) ==
    [tag |-> "Err", kind |-> "ServiceError", parts |-> {e, rollback_err}]

Did(step, ok) == [step |-> step, ok |-> ok]

\* let was_running = self.is_running().await?
UpgradeBegin ==
    /\ up_pc = "idle"
    /\ \E backup \in BOOLEAN, running \in BOOLEAN :
          /\ up_backup' = backup
          /\ was_running' = running
          /\ up_pc' = IF running THEN "stop" ELSE "backup"
    /\ backup_path' = <<>>
    /\ up_log' = <<>>
    /\ up_result' = UpPending
    /\ UNCHANGED <<binary_path, files, backup_file>>
    /\ UNCHANGED notUpgrade

\* if was_running { self.stop().await?; }
UpgradeStop ==
    /\ up_pc = "stop"
    /\ \E ok \in BOOLEAN :
          /\ up_log' = Append(up_log, Did("stop", ok))
          /\ up_pc' = IF ok THEN "backup" ELSE "idle"
          /\ up_result' = IF ok THEN up_result ELSE UpErr("stop")
    /\ UNCHANGED <<up_backup, was_running, backup_path, binary_path, files,
                   backup_file>>
    /\ UNCHANGED notUpgrade

\* let backup_path = if backup { Some(self.backup_current_binary()?) } else
\* { None }: the backup is a new file, written only if the binary exists
UpgradeBackup ==
    /\ up_pc = "backup"
    /\ IF up_backup
       THEN \E ok \in BOOLEAN :
               /\ up_log' = Append(up_log, Did("backup", ok))
               /\ up_pc' = IF ok THEN "install" ELSE "idle"
               /\ up_result' = IF ok THEN up_result ELSE UpErr("backup")
               /\ backup_path' = IF ok THEN <<"backup">> ELSE <<>>
               /\ backup_file' = IF ok THEN files[binary_path] ELSE "none"
       ELSE /\ up_pc' = "install"
            /\ UNCHANGED <<up_log, up_result, backup_path, backup_file>>
    /\ UNCHANGED <<up_backup, was_running, binary_path, files>>
    /\ UNCHANGED notUpgrade

\* download_and_install: download_version writes the default path, and a
\* failure comes before the write, in it, or after it (set_permissions);
\* config.binary_path is set once the download has succeeded.  When it
\* failed and the service was running, start is called and its result dropped.
UpgradeInstall ==
    /\ up_pc = "install"
    /\ \E written \in {"none", "partial", "new"}, ok \in BOOLEAN :
          /\ ok => written = "new"
          /\ files' = IF written = "none" THEN files
                      ELSE [files EXCEPT !["default"] = written]
          /\ binary_path' = IF ok THEN "default" ELSE binary_path
          /\ IF ok
             THEN /\ up_log' = Append(up_log, Did("install", TRUE))
                  /\ up_pc' = IF was_running THEN "start" ELSE "idle"
                  /\ up_result' = IF was_running THEN up_result ELSE UpOk
             ELSE /\ up_pc' = "idle"
                  /\ up_result' = UpErr("install")
                  /\ \E started \in BOOLEAN :
                        up_log' = up_log \o <<Did("install", FALSE)>> \o
                                  (IF was_running THEN <<Did("start", started)>>
                                   ELSE <<>>)
    /\ UNCHANGED <<up_backup, was_running, backup_path, backup_file>>
    /\ UNCHANGED notUpgrade

\* if let Err(e) = self.start().await { ... return Err(e) }
UpgradeStart ==
    /\ up_pc = "start"
    /\ \E ok \in BOOLEAN :
          /\ up_log' = Append(up_log, Did("start", ok))
          /\ up_pc' = IF ~ok /\ backup_path # <<>> THEN "restore" ELSE "idle"
          /\ up_result' = IF ok THEN UpOk
                          ELSE IF backup_path # <<>> THEN up_result
                          ELSE UpErr("start")
    /\ UNCHANGED <<up_backup, was_running, backup_path, binary_path, files,
                   backup_file>>
    /\ UNCHANGED notUpgrade

\* fs::copy(&backup_path, &self.config.binary_path): fails when the backup
\* file does not exist, and can fail when it does
UpgradeRestore ==
    /\ up_pc = "restore"
    /\ \E ok \in BOOLEAN :
          /\ ok => backup_file # "none"
          /\ up_log' = Append(up_log, Did("restore", ok))
          /\ files' = IF ok THEN [files EXCEPT ![binary_path] = backup_file]
                      ELSE files
          /\ up_pc' = IF ok THEN "restart" ELSE "idle"
          /\ up_result' = IF ok THEN up_result
                          ELSE rollback_failed("start", "restore")
    /\ UNCHANGED <<up_backup, was_running, backup_path, binary_path,
                   backup_file>>
    /\ UNCHANGED notUpgrade

\* self.start().await?; then return Err(e), e being the first start's error
UpgradeRestart ==
    /\ up_pc = "restart"
    /\ \E ok \in BOOLEAN :
          /\ up_log' = Append(up_log, Did("start", ok))
          /\ up_result' = IF ok THEN UpErr("start") ELSE UpErr("restart")
    /\ up_pc' = "idle"
    /\ UNCHANGED <<up_backup, was_running, backup_path, binary_path, files,
                   backup_file>>
    /\ UNCHANGED notUpgrade

\* The binary is at the configured path, or missing
UpgradeBoot ==
    /\ up_pc = "idle"
    /\ up_backup = FALSE
    /\ was_running = FALSE
    /\ backup_path = <<>>
    /\ binary_path \in BinaryPaths
    /\ \E c \in {"none", "old"} :
          files = [p \in BinaryPaths |-> IF p = binary_path THEN c ELSE "none"]
    /\ backup_file = "none"
    /\ up_log = <<>>
    /\ up_result = UpPending

\* No upgrade
UpgradeIdle ==
    /\ up_pc = "idle"
    /\ up_backup = FALSE
    /\ was_running = FALSE
    /\ backup_path = <<>>
    /\ binary_path = "default"
    /\ files = [p \in BinaryPaths |-> "none"]
    /\ backup_file = "none"
    /\ up_log = <<>>
    /\ up_result = UpPending

UpgradeNext ==
    \/ UpgradeBegin
    \/ UpgradeStop
    \/ UpgradeBackup
    \/ UpgradeInstall
    \/ UpgradeStart
    \/ UpgradeRestore
    \/ UpgradeRestart

(***************************************************************************)
(* Telemetry streams.  stream_logs, stream_traffic and stream_connections  *)
(* (src/src/core/client.rs) spawn a task that reads WebSocket messages and *)
(* sends items on an unbounded channel; traffic_stream and memory_stream   *)
(* (src/src/client.rs) read lines when the consumer polls.  A frame is     *)
(* [id, kind]: id is its position in the engine's emission order; kind is  *)
(* "text_ok" (a text that decodes), "text_bad" (a text that does not),     *)
(* "other" (a ping or binary message; an empty line), "close" (a Close     *)
(* message) or "error" (a read error).  An item is [id, ok]: the frame it  *)
(* was made from, and whether it is a value or an error item.              *)
(***************************************************************************)
\* Frames the engine emits on one stream
MaxFrames == 2

TaskStreams == {"stream_logs", "stream_traffic", "stream_connections"}

LineStreams == {"traffic_stream", "memory_stream"}

\* The path of the engine's API a stream function opens
StreamPath(stream) ==
    CASE stream \in {"stream_logs"} -> "/logs"
      [] stream \in {"stream_traffic", "traffic_stream"} -> "/traffic"
      [] stream \in {"memory_stream"} -> "/memory"
      [] stream \in {"stream_connections"} -> "/connections"

FrameKinds(stream) ==
    IF stream \in TaskStreams THEN {"text_ok", "text_bad", "other", "close", "error"}
    ELSE {"text_ok", "text_bad", "other", "error"}

\* A stand-in for send that puts the item at the head of the queue
send_mutant(queue, item) == <<item>> \o queue

\* UnboundedSender::send on a channel whose receiver is alive
send(queue, item) == Append(queue, item)

\* The engine emits one more frame
Emit ==
    /\ emitted < MaxFrames
    /\ ~wire_closed
    /\ socket_open
    /\ \E k \in FrameKinds(st_kind) :
          wire' = Append(wire, [id |-> emitted + 1, kind |-> k])
    /\ emitted' = emitted + 1
    /\ UNCHANGED <<st_kind, wire_closed, read_log, chan, received, rx_open, task,
                   socket_open>>
    /\ UNCHANGED <<st_secret, st_request>>
    /\ UNCHANGED notStream

\* The engine ends the connection
EngineEof ==
    /\ ~wire_closed
    /\ socket_open
    /\ wire_closed' = TRUE
    /\ UNCHANGED <<st_kind, wire, emitted, read_log, chan, received, rx_open, task,
                   socket_open>>
    /\ UNCHANGED <<st_secret, st_request>>
    /\ UNCHANGED notStream

\* if let Ok((ws_stream, _)) = connect_async(..).await: the task sends the
\* WebSocket handshake, built from the URL alone (TCP) or from a fixed list
\* of headers (Unix socket), and ends at once when the connection fails
ProducerConnect ==
    /\ task = "connecting"
    /\ \E ok \in BOOLEAN :
          /\ task' = IF ok THEN "running" ELSE "done"
          /\ socket_open' = ok
    /\ UNCHANGED <<st_kind, wire, wire_closed, emitted, read_log, chan, received,
                   rx_open>>
    /\ st_request' = <<[path |-> StreamPath(st_kind), authorization |-> <<>>]>>
    /\ UNCHANGED st_secret
    /\ UNCHANGED notStream

\* One round of `while let Some(msg) = read.next().await`: it proceeds when
\* a message is there or the connection has ended
ProducerRead ==
    /\ st_kind \in TaskStreams
    /\ task = "running"
    /\ wire # <<>> \/ wire_closed
    /\ IF wire = <<>>
       THEN /\ task' = "done"
            /\ socket_open' = FALSE
            /\ UNCHANGED <<wire, read_log, chan>>
       ELSE LET f == Head(wire)
                sends == \/ f.kind = "text_ok"
                         \/ f.kind = "text_bad" /\ st_kind = "stream_logs"
                stops == \/ f.kind \in {"close", "error"}
                         \/ sends /\ ~rx_open
            IN
            /\ wire' = Tail(wire)
            /\ read_log' = Append(read_log, f)
            /\ chan' = IF sends /\ rx_open
                       THEN send(chan, [id |-> f.id, ok |-> TRUE])
                       ELSE chan
            /\ task' = IF stops THEN "done" ELSE task
            /\ socket_open' = ~stops
    /\ UNCHANGED <<st_kind, wire_closed, emitted, received, rx_open>>
    /\ UNCHANGED <<st_secret, st_request>>
    /\ UNCHANGED notStream

\* rx.recv() returns the oldest item of the channel
ConsumerRecv ==
    /\ st_kind \in TaskStreams
    /\ rx_open
    /\ chan # <<>>
    /\ received' = Append(received, Head(chan))
    /\ chan' = Tail(chan)
    /\ UNCHANGED <<st_kind, wire, wire_closed, emitted, read_log, rx_open, task,
                   socket_open>>
    /\ UNCHANGED <<st_secret, st_request>>
    /\ UNCHANGED notStream

\* stream.next() on traffic_stream or memory_stream: one read_line
ConsumerPull ==
    /\ st_kind \in LineStreams
    /\ rx_open
    /\ task = "running"
    /\ wire # <<>> \/ wire_closed
    /\ IF wire = <<>>
       THEN /\ task' = "done"
            /\ socket_open' = FALSE
            /\ UNCHANGED <<wire, read_log, received>>
       ELSE LET f == Head(wire) IN
            /\ wire' = Tail(wire)
            /\ read_log' = Append(read_log, f)
            /\ received' = Append(received, [id |-> f.id, ok |-> f.kind = "text_ok"])
            /\ UNCHANGED <<task, socket_open>>
    /\ UNCHANGED <<st_kind, wire_closed, emitted, chan, rx_open>>
    /\ UNCHANGED <<st_secret, st_request>>
    /\ UNCHANGED notStream

\* The consumer drops its handle: the receiver and the items still queued
\* for a task stream; the stream with its reader and socket for a line stream
ConsumerDrop ==
    /\ rx_open
    /\ rx_open' = FALSE
    /\ chan' = <<>>
    /\ IF st_kind \in LineStreams
       THEN task' = "done" /\ socket_open' = FALSE
       ELSE UNCHANGED <<task, socket_open>>
    /\ UNCHANGED <<st_kind, wire, wire_closed, emitted, read_log, received>>
    /\ UNCHANGED <<st_secret, st_request>>
    /\ UNCHANGED notStream

\* The call has returned the consumer handle: the task is spawned and not
\* yet connected, or the line stream's request, sent with the Authorization
\* header when a secret is configured, has been answered
StreamStart ==
    /\ st_kind \in TaskStreams \cup LineStreams
    /\ wire = <<>>
    /\ wire_closed = FALSE
    /\ emitted = 0
    /\ read_log = <<>>
    /\ chan = <<>>
    /\ received = <<>>
    /\ rx_open = TRUE
    /\ task = IF st_kind \in TaskStreams THEN "connecting" ELSE "running"
    /\ socket_open = (st_kind \in LineStreams)
    /\ st_secret \in {<<>>, <<"s3cret">>}
    /\ st_request =
          IF st_kind \in TaskStreams THEN <<>>
          ELSE <<[path |-> StreamPath(st_kind),
                  authorization |-> IF st_secret = <<>> THEN <<>>
                                    ELSE <<<<"Bearer", st_secret[1]>>>>]>>

\* No stream
StreamIdle ==
    /\ st_kind = "stream_logs"
    /\ wire = <<>>
    /\ wire_closed = FALSE
    /\ emitted = 0
    /\ read_log = <<>>
    /\ chan = <<>>
    /\ received = <<>>
    /\ rx_open = FALSE
    /\ task = "done"
    /\ socket_open = FALSE
    /\ st_secret = <<>>
    /\ st_request = <<>>

StreamNext ==
    \/ Emit
    \/ EngineEof
    \/ ProducerConnect
    \/ ProducerRead
    \/ ConsumerRecv
    \/ ConsumerPull
    \/ ConsumerDrop

(***************************************************************************)
(* Monitor: src/src/monitor.rs.  Time is counted in ticks of the sampling  *)
(* interval and history_retention in the same unit; a snapshot is its      *)
(* timestamp, an event is [type, ts].  The result of a sampling call is    *)
(* <<>> when the call failed and <<value>> when it answered.  start and    *)
(* stop take &mut self and get_system_status takes &self: none of them can *)
(* be called while the future of start, which runs the loop, is alive.     *)
(***************************************************************************)
\* Sampling cycles the loop runs
MaxCycles == 3

\* Calls of start, stop and get_system_status
MaxCalls == 2

EventCap == 1000

MonitorConfigs ==
    {[enable_traffic_monitor |-> TRUE, enable_memory_monitor |-> TRUE,
      enable_connection_monitor |-> TRUE, traffic_threshold |-> <<2>>,
      memory_threshold |-> <<2>>, connection_threshold |-> <<2>>,
      history_retention |-> 2],
     [enable_traffic_monitor |-> TRUE, enable_memory_monitor |-> FALSE,
      enable_connection_monitor |-> TRUE, traffic_threshold |-> <<>>,
      memory_threshold |-> <<2>>, connection_threshold |-> <<2>>,
      history_retention |-> 1]}

\* What the engine answers to traffic(), memory() and connections() in one
\* cycle: a failure, or a reading below the threshold of the model, between
\* one and two times the threshold, or above two times the threshold
Samples ==
    [traffic : {<<>>, <<[up |-> 1, down |-> 1]>>, <<[up |-> 3, down |-> 1]>>,
                <<[up |-> 1, down |-> 5]>>},
     memory : {<<>>, <<1>>, <<3>>, <<5>>},
     connections : {<<>>, <<1>>, <<3>>, <<5>>}]

NoHistory ==
    [traffic_history |-> <<>>, memory_history |-> <<>>,
     connection_history |-> <<>>, events |-> <<>>]

\* add_event without the eviction
add_event_mutant(h, event_type, now) ==
    [h EXCEPT !.events = Append(h.events, [type |-> event_type, ts |-> now])]

\* Monitor::add_event
add_event(h, event_type, now) ==
    LET pushed == Append(h.events, [type |-> event_type, ts |-> now]) IN
    [h EXCEPT !.events = IF Len(pushed) > EventCap THEN Tail(pushed) ELSE pushed]

\* Monitor::collect_metrics: the history after it, and what it returned
collect_metrics(h, config, now, s) ==
    LET exceeds(threshold, v) == threshold # <<>> /\ v > threshold[1]
        t == IF config.enable_traffic_monitor /\ s.traffic # <<>>
             THEN LET pushed == [h EXCEPT !.traffic_history = Append(@, now)] IN
                  IF \/ exceeds(config.traffic_threshold, s.traffic[1].up)
                     \/ exceeds(config.traffic_threshold, s.traffic[1].down)
                  THEN add_event(pushed, "TrafficAlert", now)
                  ELSE pushed
             ELSE h
        m == IF config.enable_memory_monitor /\ s.memory # <<>>
             THEN LET pushed == [t EXCEPT !.memory_history = Append(@, now)] IN
                  IF exceeds(config.memory_threshold, s.memory[1])
                  THEN add_event(pushed, "MemoryAlert", now)
                  ELSE pushed
             ELSE t
        c == IF config.enable_connection_monitor /\ s.connections # <<>>
             THEN LET pushed == [m EXCEPT !.connection_history = Append(@, now)] IN
                  IF exceeds(config.connection_threshold, s.connections[1])
                  THEN add_event(pushed, "ConnectionAnomaly", now)
                  ELSE pushed
             ELSE m
    IN [history |-> c, tag |-> "Ok"]

\* cleanup_history that retains everything
cleanup_history_mutant(h, config, now) == h

\* Monitor::cleanup_history
cleanup_history(h, config, now) ==
    LET cutoff_time == now - config.history_retention
        retain(seq, keep(_)) == SelectSeq(seq, keep)
        fresh(ts) == ts > cutoff_time
        fresh_event(e) == e.ts > cutoff_time
    IN [traffic_history |-> retain(h.traffic_history, fresh),
        memory_history |-> retain(h.memory_history, fresh),
        connection_history |-> retain(h.connection_history, fresh),
        events |-> retain(h.events, fresh_event)]

\* Monitor::calculate_health_status
calculate_health_status(config, traffic, memory, connection_count) ==
    LET over(threshold, v) == threshold # <<>> /\ v > threshold[1]
        twice(threshold, v) == threshold # <<>> /\ v > threshold[1] * 2
        errors == (IF twice(config.memory_threshold, memory) THEN 1 ELSE 0)
                  + (IF twice(config.connection_threshold, connection_count)
                     THEN 1 ELSE 0)
        warnings == (IF /\ over(config.memory_threshold, memory)
                        /\ ~twice(config.memory_threshold, memory)
                     THEN 1 ELSE 0)
                    + (IF /\ over(config.connection_threshold, connection_count)
                          /\ ~twice(config.connection_threshold, connection_count)
                       THEN 1 ELSE 0)
                    + (IF \/ over(config.traffic_threshold, traffic.up)
                          \/ over(config.traffic_threshold, traffic.down)
                       THEN 1 ELSE 0)
    IN IF errors > 0 THEN "Unhealthy"
       ELSE IF warnings > 0 THEN "Warning"
       ELSE "Healthy"

\* A call or cycle: what the engine answered in it, and what it returned:
\* on success the health, on failure the name of the call that failed
MonCall(op, tag, sample, ret) ==
    [op |-> op, tag |-> tag, sample |-> sample, ret |-> ret]

\* Monitor::start up to the loop: the call fails when the flag is set
MonStart ==
    /\ mon_pc = "idle"
    /\ mon_calls < MaxCalls
    /\ mon_calls' = mon_calls + 1
    /\ IF mon_is_running
       THEN /\ mon_last' = MonCall("start", "Err", <<>>, "")
            /\ UNCHANGED <<mon_is_running, mon_pc, history>>
       ELSE /\ mon_is_running' = TRUE
            /\ history' = add_event(history, "SystemStart", mon_now)
            /\ mon_pc' = "loop"
            /\ mon_last' = MonCall("start", "Pending", <<>>, "")
    /\ UNCHANGED <<mon_config, mon_now, cycles>>
    /\ UNCHANGED notMonitor

\* One round of monitor_loop: the test of the flag, the tick, collect_metrics
\* with the event on its failure, and cleanup_history; start returns Ok when
\* the flag is found cleared
MonCycle ==
    /\ mon_pc = "loop"
    /\ IF ~mon_is_running
       THEN /\ mon_pc' = "idle"
            /\ mon_last' = MonCall("start", "Ok", <<>>, "")
            /\ UNCHANGED <<mon_now, history, cycles>>
       ELSE /\ cycles < MaxCycles
            /\ cycles' = cycles + 1
            /\ mon_now' = mon_now + 1
            /\ \E s \in Samples :
                  LET r == collect_metrics(history, mon_config, mon_now', s)
                      h == IF r.tag = "Err"
                           THEN add_event(r.history, "HealthCheckFailed", mon_now')
                           ELSE r.history
                  IN /\ history' = cleanup_history(h, mon_config, mon_now')
                     /\ mon_last' = MonCall("cycle", "Pending", <<s>>, "")
            /\ UNCHANGED mon_pc
    /\ UNCHANGED <<mon_is_running, mon_config, mon_calls>>
    /\ UNCHANGED notMonitor

\* The caller drops the future of start while it waits for the tick
MonCancel ==
    /\ mon_pc = "loop"
    /\ mon_pc' = "idle"
    /\ mon_last' = MonCall("start", "Dropped", <<>>, "")
    /\ UNCHANGED <<mon_is_running, mon_config, mon_now, history, cycles, mon_calls>>
    /\ UNCHANGED notMonitor

\* Monitor::stop; the record notes the flag it found
MonStop ==
    /\ mon_pc = "idle"
    /\ mon_calls < MaxCalls
    /\ mon_calls' = mon_calls + 1
    /\ mon_is_running' = FALSE
    /\ history' = add_event(history, "SystemStop", mon_now)
    /\ mon_last' = MonCall("stop", "Ok", <<>>,
                            IF mon_is_running THEN "was_running" ELSE "was_stopped")
    /\ UNCHANGED <<mon_pc, mon_config, mon_now, cycles>>
    /\ UNCHANGED notMonitor

\* Monitor::get_system_status: version, traffic, memory and connections are
\* asked in turn; the first failure is returned and the calls after it are
\* not made (sample holds <<>> for them)
GetSystemStatus ==
    /\ mon_pc = "idle"
    /\ mon_calls < MaxCalls
    /\ mon_calls' = mon_calls + 1
    /\ \E version_ok \in BOOLEAN, s \in Samples :
          LET failed(call) == MonCall("get_system_status", "Err", <<s>>, call) IN
          /\ ~version_ok => s.traffic = <<>>
          /\ s.traffic = <<>> => s.memory = <<>>
          /\ s.memory = <<>> => s.connections = <<>>
          /\ mon_last' =
                IF ~version_ok THEN failed("version")
                ELSE IF s.traffic = <<>> THEN failed("traffic")
                ELSE IF s.memory = <<>> THEN failed("memory")
                ELSE IF s.connections = <<>> THEN failed("connections")
                ELSE MonCall("get_system_status", "Ok", <<s>>,
                             calculate_health_status(mon_config, s.traffic[1],
                                                     s.memory[1], s.connections[1]))
    /\ UNCHANGED <<mon_is_running, mon_pc, mon_config, mon_now, history, cycles>>
    /\ UNCHANGED notMonitor

\* Monitor::with_config
MonitorStart ==
    /\ mon_is_running = FALSE
    /\ mon_pc = "idle"
    /\ mon_config \in MonitorConfigs
    /\ mon_now = 0
    /\ history = NoHistory
    /\ cycles = 0
    /\ mon_calls = 0
    /\ mon_last = MonCall("none", "", <<>>, "")

\* No monitor
MonitorIdle ==
    /\ mon_is_running = FALSE
    /\ mon_pc = "idle"
    /\ mon_config = CHOOSE c \in MonitorConfigs : c.history_retention = 2
    /\ mon_now = 0
    /\ history = NoHistory
    /\ cycles = 0
    /\ mon_calls = 0
    /\ mon_last = MonCall("none", "", <<>>, "")

\* A monitor whose event log holds EventCap - 1 or EventCap events, all
\* within the retention window (stop logs an event at every call and time
\* need not pass between calls)
MonitorFull ==
    LET kind(i) == IF i % 3 = 0 THEN "SystemStop"
                   ELSE IF i % 3 = 1 THEN "SystemStart" ELSE "MemoryAlert"
        log(n) == [i \in 1..n |-> [type |-> kind(i), ts |-> 0]]
    IN /\ mon_is_running = FALSE
       /\ mon_pc = "idle"
       /\ mon_config \in MonitorConfigs
       /\ mon_now = 0
       /\ \E n \in {EventCap - 1, EventCap} :
             history = [NoHistory EXCEPT !.events = log(n)]
       /\ cycles = 0
       /\ mon_calls = 0
       /\ mon_last = MonCall("none", "", <<>>, "")

MonitorNext ==
    \/ MonStart
    \/ MonCycle
    \/ MonCancel
    \/ MonStop
    \/ GetSystemStatus

(***************************************************************************)
(* The batch test of the CLI: src/src/main.rs, ProxyAction::BatchTest.     *)
(* One task is spawned per proxy; a task waits for a permit, probes the    *)
(* engine through test_proxy_delay and gives the permit back when its      *)
(* block ends.  A task is [pc, result]: pc is "unspawned", "acquire",      *)
(* "probe" (the delay request is in flight), "done" or "joined".           *)
(***************************************************************************)
\* Proxies in the list under test
MaxProxies == 3

\* Values of --concurrent
MaxConcurrent == 2

\* a semaphore that hands out permits it does not have
acquire_mutant(permits) == TRUE

\* Semaphore::acquire: the future completes while a permit is left
acquire(permits) == permits > 0

BtTask(pc, res) == [pc |-> pc, result |-> res]

\* for proxy_name in proxies { tokio::spawn(..) }: the next task is spawned
BatchSpawn ==
    /\ \E i \in DOMAIN bt_tasks :
          /\ bt_tasks[i].pc = "unspawned"
          /\ \A j \in 1..(i - 1) : bt_tasks[j].pc # "unspawned"
          /\ bt_tasks' = [bt_tasks EXCEPT ![i] = BtTask("acquire", "None")]
    /\ UNCHANGED <<bt_concurrent, bt_permits>>
    /\ UNCHANGED notBatch

\* let _permit = semaphore_clone.acquire().await.unwrap(), then the request
\* of test_proxy_delay is sent
BatchAcquire ==
    /\ \E i \in DOMAIN bt_tasks :
          /\ bt_tasks[i].pc = "acquire"
          /\ acquire(bt_permits)
          /\ bt_permits' = bt_permits - 1
          /\ bt_tasks' = [bt_tasks EXCEPT ![i] = BtTask("probe", "None")]
    /\ UNCHANGED bt_concurrent
    /\ UNCHANGED notBatch

\* test_proxy_delay returns, the block ends and _permit is dropped
BatchProbeReturn ==
    /\ \E i \in DOMAIN bt_tasks, res \in {"Ok", "Err"} :
          /\ bt_tasks[i].pc = "probe"
          /\ bt_permits' = bt_permits + 1
          /\ bt_tasks' = [bt_tasks EXCEPT ![i] = BtTask("done", res)]
    /\ UNCHANGED bt_concurrent
    /\ UNCHANGED notBatch

\* for task in tasks { task.await }: after the spawning loop, the results
\* are collected in the order of the tasks
BatchJoin ==
    /\ \A j \in DOMAIN bt_tasks : bt_tasks[j].pc # "unspawned"
    /\ \E i \in DOMAIN bt_tasks :
          /\ bt_tasks[i].pc = "done"
          /\ \A j \in 1..(i - 1) : bt_tasks[j].pc = "joined"
          /\ bt_tasks' = [bt_tasks EXCEPT ![i].pc = "joined"]
    /\ UNCHANGED <<bt_concurrent, bt_permits>>
    /\ UNCHANGED notBatch

\* Semaphore::new(concurrent) and the list of proxies to test
BatchStart ==
    /\ bt_concurrent \in 0..MaxConcurrent
    /\ bt_permits = bt_concurrent
    /\ \E n \in 0..MaxProxies :
          bt_tasks = [i \in 1..n |-> BtTask("unspawned", "None")]

\* No batch test
BatchIdle ==
    /\ bt_concurrent = 0
    /\ bt_permits = 0
    /\ bt_tasks = <<>>

BatchNext ==
    \/ BatchSpawn
    \/ BatchAcquire
    \/ BatchProbeReturn
    \/ BatchJoin

(***************************************************************************)
(* RetryPolicy::calculate_delay: src/src/retry.rs.  Durations are whole     *)
(* milliseconds; an f64 is a fraction <<numerator, denominator>>, and the  *)
(* arithmetic on fractions is exact.  rand::random::<f64>() is r / RandDen *)
(* with r in 0..RandDen-1, a value of [0, 1).                              *)
(***************************************************************************)
RandDen == 8

\* The policies of the model: initial_delay, max_delay, backoff_multiplier
\* and jitter_factor (which with_jitter_factor clamps to 0.0-1.0)
RetryPolicies ==
    [max_attempts : 1..MaxAttemptsBound,
     initial_delay : {1, 100},
     max_delay : {150, 30000},
     backoff_multiplier : {<<1, 1>>, <<3, 2>>, <<2, 1>>},
     jitter_factor : {<<0, 1>>, <<1, 10>>, <<1, 1>>}]

\* f64::powi on whole numbers
RECURSIVE powi(_, _)
powi(b, k) == IF k = 0 THEN 1 ELSE b * powi(b, k - 1)

\* initial_delay * backoff_multiplier^n, capped by max_delay: the
\* numerator over the denominator backoff_multiplier[2]^n
delay_ms(policy, n) ==
    LET den == powi(policy.backoff_multiplier[2], n)
        base_delay == policy.initial_delay * powi(policy.backoff_multiplier[1], n)
    IN IF base_delay <= policy.max_delay * den THEN base_delay
       ELSE policy.max_delay * den

\* calculate_delay without the cap of max_delay
calculate_delay_mutant(policy, n, r) ==
    (policy.initial_delay * powi(policy.backoff_multiplier[1], n))
        \div powi(policy.backoff_multiplier[2], n)

\* RetryPolicy::calculate_delay, in milliseconds: delay_ms + jitter with
\* jitter = delay_ms * jitter_factor * (rand - 0.5), then .max(0.0) as u64
calculate_delay(policy, n, r) ==
    LET den == powi(policy.backoff_multiplier[2], n)
        jn == policy.jitter_factor[1]
        jd == policy.jitter_factor[2]
        \* (delay_ms + jitter) = numerator / (den * jd * 2 * RandDen)
        numerator == delay_ms(policy, n)
                        * (jd * 2 * RandDen + jn * (2 * r - RandDen))
    IN IF numerator < 0 THEN 0
       ELSE numerator \div (den * jd * 2 * RandDen)

\* A retryable failure at an attempt that is not the last one:
\* calculate_delay(attempt), sleep(delay).await, and the next iteration
DelaySleep ==
    /\ dl_attempt < dl_policy.max_attempts - 1
    /\ \E r \in 0..(RandDen - 1) :
          dl_sleeps' = Append(dl_sleeps,
                              [attempt |-> dl_attempt, rand |-> r,
                               delay |-> calculate_delay(dl_policy, dl_attempt, r)])
    /\ dl_attempt' = dl_attempt + 1
    /\ UNCHANGED dl_policy
    /\ UNCHANGED notDelay

\* RetryExecutor::new(policy), at the first invocation
DelayStart ==
    /\ dl_policy \in RetryPolicies
    /\ dl_attempt = 0
    /\ dl_sleeps = <<>>

\* No executor
DelayIdle ==
    /\ dl_policy = CHOOSE policy \in RetryPolicies :
                      /\ policy.max_attempts = 1
                      /\ policy.initial_delay = 100
                      /\ policy.max_delay = 30000
                      /\ policy.backoff_multiplier = <<2, 1>>
                      /\ policy.jitter_factor = <<1, 10>>
    /\ dl_attempt = 0
    /\ dl_sleeps = <<>>

DelayNext == DelaySleep

(***************************************************************************)
(* CIDR membership: RuleEngine::is_ip_in_cidr (src/src/rules.rs) and       *)
(* network_utils::ip_in_cidr (src/src/utils.rs), applied to the same       *)
(* address and network.                                                    *)
(***************************************************************************)
TxtIp192168_1_255 == <<"1", "9", "2", ".", "1", "6", "8", ".", "1", ".", "2", "5", "5">>
TxtIp192168_2_0 == <<"1", "9", "2", ".", "1", "6", "8", ".", "2", ".", "0">>
TxtIpV6One == <<":", ":", "1">>
TxtIpV6Zero == <<":", ":">>
TxtIpV6High == <<"8", "0", "0", "0", ":", ":">>
TxtNet192168_1_0 == <<"1", "9", "2", ".", "1", "6", "8", ".", "1", ".", "0">>

\* The addresses asked about
CidrAddresses ==
    {TxtIp192168_1_255, TxtIp192168_2_0, TxtIp10009, TxtIpV6One, TxtIpV6Zero,
     TxtIpV6High}

\* The networks: an IPv4 and an IPv6 network with prefix lengths at the ends
\* and in the middle of the range, and one past the range
CidrNetworks ==
    {TxtNet192168_1_0 \o <<"/">> \o to_string(n) : n \in {0, 1, 23, 24, 32, 33}}
    \cup {TxtIpV6Zero \o <<"/">> \o to_string(n) : n \in {0, 1, 127, 128, 129}}

\* u32::from(Ipv4Addr) and u128::from(Ipv6Addr): the bits of the octets,
\* most significant first
bits_from(octets) ==
    [i \in 1..(8 * Len(octets)) |->
        to_bits(octets[((i - 1) \div 8) + 1], 8)[((i - 1) % 8) + 1]]

Panic == [tag |-> "Panic", val |-> "attempt to shift left with overflow"]

\* network_utils::ip_in_cidr with parse_cidr.  1 << (width - prefix_len)
\* shifts by the whole width when prefix_len is 0: a build with overflow
\* checks panics, a build without them shifts by the amount modulo the width
ip_in_cidr(ip, cidr, build) ==
    LET parts == split(cidr, "/")
        bit_not(a) == [i \in 1..Len(a) |-> 1 - a[i]]
        \* a - 1 on a word that is not 0
        minus_one(a) ==
            LET low == CHOOSE i \in 1..Len(a) :
                          a[i] = 1 /\ \A j \in (i + 1)..Len(a) : a[j] = 0
            IN [i \in 1..Len(a) |-> IF i < low THEN a[i] ELSE 1 - a[i]]
        in_network(w, a, b, prefix_len) ==
            IF w - prefix_len >= w /\ build = "debug" THEN Panic
            ELSE LET one == [i \in 1..w |-> IF i = w THEN 1 ELSE 0]
                     mask == bit_not(minus_one(shl(one, (w - prefix_len) % w)))
                 IN OkB(bit_and(bits_from(a), mask) = bit_and(bits_from(b), mask))
    IN
    IF Len(parts) # 2 THEN Err("InvalidParameter")
    ELSE LET network_ip == parse_ip(parts[1])
             prefix_len == parse_uint(parts[2], U8Max)
         IN
         IF network_ip = NoIp THEN Err("InvalidParameter")
         ELSE IF prefix_len = NoneInt THEN Err("InvalidParameter")
         ELSE IF prefix_len > (IF network_ip.fam = 4 THEN 32 ELSE 128)
         THEN Err("InvalidParameter")
         ELSE IF ip.fam = 4 /\ network_ip.fam = 4
         THEN in_network(32, ip.octets, network_ip.octets, prefix_len)
         ELSE IF ip.fam = 6 /\ network_ip.fam = 6
         THEN in_network(128, ip.octets, network_ip.octets, prefix_len)
         ELSE OkB(FALSE)

\* Both functions are asked whether the address is in the network
CidrCheck ==
    /\ ci_out = <<>>
    /\ \E build \in {"debug", "release"} :
          ci_out' = <<[build |-> build,
                       rules |-> is_ip_in_cidr(parse_ip(ci_ip), ci_cidr),
                       utils |-> ip_in_cidr(parse_ip(ci_ip), ci_cidr, build)]>>
    /\ UNCHANGED <<ci_ip, ci_cidr>>
    /\ UNCHANGED notCidr

CidrStart ==
    /\ ci_ip \in CidrAddresses
    /\ ci_cidr \in CidrNetworks
    /\ ci_out = <<>>

\* Nothing asked
CidrIdle ==
    /\ ci_ip = TxtIpV6Zero
    /\ ci_cidr = TxtIpV6Zero
    /\ ci_out = <<>>

CidrNext == CidrCheck

(***************************************************************************)
(* The PID file on its own: write_pid_file, read_pid_file and              *)
(* remove_pid_file of ServiceManager (src/src/service.rs) and of           *)
(* src/src/service/process.rs, which differ in what a read returns.  A     *)
(* call is [op, pid, ok, ret, res]: ret is the Option<u32> of              *)
(* ServiceManager::read_pid_file, res the Result<u32> of process.rs.       *)
(***************************************************************************)
\* Calls made on the file
MaxPidOps == 4

\* PIDs written: one digit, several digits, a trailing zero
PidValues == {0, 7, 10, 4321, 999999999}

PidCall(op, pid, ok, ret, res) ==
    [op |-> op, pid |-> pid, ok |-> ok, ret |-> ret, res |-> res]

\* write_pid_file: fs::write(path, pid.to_string()).  A failed write leaves
\* the file as it was or, when it fails after the file was opened, empty
PidWrite ==
    /\ Len(pf_log) < MaxPidOps
    /\ \E pid \in PidValues, outcome \in {"ok", "not opened", "not written"} :
          /\ pf_file' = CASE outcome = "ok" -> write_pid_file(pid)
                           [] outcome = "not opened" -> pf_file
                           [] outcome = "not written" -> <<<<>>>>
          /\ pf_log' = Append(pf_log,
                               PidCall("write", pid, outcome = "ok", NoneInt, NoResult))
    /\ UNCHANGED notPidfile

\* read_pid_file: None (service.rs) or Err (process.rs) when the file is
\* absent or does not hold a u32
PidRead ==
    /\ Len(pf_log) < MaxPidOps
    /\ LET pid == read_pid_file(pf_file) IN
       pf_log' = Append(pf_log,
                        PidCall("read", NoneInt, TRUE, pid,
                                IF pf_file = <<>> THEN Err("NotFound")
                                ELSE IF pid = NoneInt THEN Err("Service")
                                ELSE Ok(pid)))
    /\ UNCHANGED pf_file
    /\ UNCHANGED notPidfile

\* remove_pid_file: fs::remove_file when the file exists
PidRemove ==
    /\ Len(pf_log) < MaxPidOps
    /\ \E ok \in BOOLEAN :
          /\ (pf_file = <<>> => ok)
          /\ pf_file' = IF ok THEN <<>> ELSE pf_file
          /\ pf_log' = Append(pf_log, PidCall("remove", NoneInt, ok, NoneInt, NoResult))
    /\ UNCHANGED notPidfile

PidFileStart ==
    /\ pf_file \in {<<>>} \cup {write_pid_file(pid) : pid \in PidValues}
    /\ pf_log = <<>>

\* Nobody touches the file
PidFileIdle ==
    /\ pf_file = <<>>
    /\ pf_log = <<>>

PidFileNext ==
    \/ PidWrite
    \/ PidRead
    \/ PidRemove

(***************************************************************************)
(* A version download: ServiceManager::download_version                    *)
(* (src/src/service.rs) and Downloader::download_version                   *)
(* (src/src/version/download.rs).  A file is a sequence of bytes; the       *)
(* response body is gzip or zip data, recognised by its first two bytes.    *)
(* The environment decides which step of a download fails, if any.          *)
(***************************************************************************)
\* Downloads made in a run
MaxDownloads == 2

\* GzDecoder::read_to_end: the data behind the gzip magic bytes, or an error
decompress_gz(bytes) ==
    IF Len(bytes) >= 2 /\ bytes[1] = 31 /\ bytes[2] = 139
    THEN Ok(SubSeq(bytes, 3, Len(bytes)))
    ELSE Err("Decompress")

\* Downloader::decompress_zip: the data behind the zip signature, or an error
decompress_zip(bytes) ==
    IF Len(bytes) >= 2 /\ bytes[1] = 80 /\ bytes[2] = 75
    THEN Ok(SubSeq(bytes, 3, Len(bytes)))
    ELSE Err("Decompress")

\* The steps of a download that can fail, in the order they are taken
DownloadFaults ==
    {"none", "asset", "send", "status", "bytes", "mkdir", "create", "write", "perms"}

\* What a download returns and the file it leaves
DownloadRes(tag, err, file) == [tag |-> tag, err |-> err, file |-> file]

\* A mutation of download_version: the destination file is created, and so
\* emptied, before the request is sent.
download_version_mutant(impl, extension, body, file, fault, written) ==
    IF fault \in {"send", "status", "bytes"}
    THEN DownloadRes("Err", "Download", <<<<>>>>)
    ELSE LET data == IF extension = "gz" THEN decompress_gz(body)
                     ELSE decompress_zip(body)
         IN IF data.tag = "Err" THEN DownloadRes("Err", data.val, <<<<>>>>)
            ELSE DownloadRes("Ok", "", <<data.val>>)

\* download_version of either implementation (impl is "service" or
\* "version"), on a build whose assets have the given extension, with the
\* response body `body` and the destination file `file`.  `fault` is the
\* step the environment lets fail, `written` the bytes a failing write has
\* put into the file.
download_version(impl, extension, body, file, fault, written) ==
    IF impl = "service" /\ fault = "asset" THEN DownloadRes("Err", "VersionNotFound", file)
    ELSE IF fault = "send"
    THEN DownloadRes("Err", IF impl = "service" THEN "Network" ELSE "Http", file)
    ELSE IF fault = "status"
    THEN DownloadRes("Err", IF impl = "service" THEN "Download" ELSE "Version", file)
    ELSE IF fault = "bytes"
    THEN DownloadRes("Err", IF impl = "service" THEN "Download" ELSE "Http", file)
    ELSE IF impl = "service" /\ fault = "mkdir" THEN DownloadRes("Err", "Internal", file)
    ELSE LET data == IF impl = "service"
                     THEN IF extension = "gz" THEN decompress_gz(body) ELSE Ok(body)
                     ELSE IF extension = "zip" THEN decompress_zip(body)
                     ELSE decompress_gz(body)
             err == IF impl = "service" THEN "Internal" ELSE "Io"
         IN
         IF data.tag = "Err"
         THEN DownloadRes("Err", IF impl = "service" THEN "Internal" ELSE "Version", file)
         ELSE IF fault = "create" THEN DownloadRes("Err", err, file)
         ELSE IF fault = "write"
         THEN DownloadRes("Err", err, <<SubSeq(data.val, 1, written)>>)
         ELSE IF fault = "perms" /\ extension = "gz"
         THEN DownloadRes("Err", err, <<data.val>>)
         ELSE DownloadRes("Ok", "", <<data.val>>)

\* The response bodies: gzip data, zip data, and bytes that are neither
DownloadBodies == {<<31, 139, 7, 8>>, <<80, 75, 9>>, <<1, 2, 3>>}

\* One call of download_version
Download ==
    /\ dn_calls < MaxDownloads
    /\ dn_calls' = dn_calls + 1
    /\ \E impl \in {"service", "version"}, extension \in {"gz", "zip"},
          body \in DownloadBodies, fault \in DownloadFaults, written \in 0..1 :
          LET r == download_version(impl, extension, body, dn_file, fault, written) IN
          /\ dn_file' = r.file
          /\ dn_last' = [impl |-> impl, extension |-> extension, body |-> body,
                         fault |-> fault, before |-> dn_file,
                         tag |-> r.tag, err |-> r.err]
    /\ UNCHANGED notDownload

\* The destination holds no file, or the binary of an earlier install
DownloadStart ==
    /\ dn_file \in {<<>>, <<<<4, 5, 6>>>>}
    /\ dn_calls = 0
    /\ dn_last = [impl |-> "", extension |-> "", body |-> <<>>, fault |-> "none",
                  before |-> <<>>, tag |-> "None", err |-> ""]

\* No download
DownloadIdle ==
    /\ dn_file = <<>>
    /\ dn_calls = 0
    /\ dn_last = [impl |-> "", extension |-> "", body |-> <<>>, fault |-> "none",
                  before |-> <<>>, tag |-> "None", err |-> ""]

DownloadNext == Download

(***************************************************************************)
(* Specifications, one per subsystem.                                      *)
(***************************************************************************)
RetryInit == RetryStart /\ RulesIdle /\ ProxyIdle /\ ServiceIdle /\ UpgradeIdle /\ StreamIdle
    /\ MonitorIdle
    /\ BatchIdle
    /\ DelayIdle
    /\ CidrIdle
    /\ PidFileIdle
    /\ DownloadIdle
SpecRetry == RetryInit /\ [][RetryNext]_vars

RulesInit == RulesStart /\ RetryIdle /\ ProxyIdle /\ ServiceIdle /\ UpgradeIdle /\ StreamIdle
    /\ MonitorIdle
    /\ BatchIdle
    /\ DelayIdle
    /\ CidrIdle
    /\ PidFileIdle
    /\ DownloadIdle
SpecRules == RulesInit /\ [][RulesNext]_vars

\* The rule engine on the lists made of three of the rules
RuleCacheInit ==
    /\ RulesInit
    /\ \A i \in DOMAIN engine_rules :
          engine_rules[i] \in {Rule("DomainSuffix", TxtAIo, "Proxy"),
                               Rule("IpCidr", TxtCidr24, "Lan"),
                               Rule("Match", <<>>, "Reject")}
SpecRuleCache == RuleCacheInit /\ [][RulesNext]_vars

ProxyInit == ProxyStart /\ RetryIdle /\ RulesIdle /\ ServiceIdle /\ UpgradeIdle /\ StreamIdle
    /\ MonitorIdle
    /\ BatchIdle
    /\ DelayIdle
    /\ CidrIdle
    /\ PidFileIdle
    /\ DownloadIdle
SpecProxy == ProxyInit /\ [][ProxyNext]_vars

ServiceInit == ServiceStart /\ RetryIdle /\ RulesIdle /\ ProxyIdle /\ UpgradeIdle /\ StreamIdle
    /\ MonitorIdle
    /\ BatchIdle
    /\ DelayIdle
    /\ CidrIdle
    /\ PidFileIdle
    /\ DownloadIdle
SpecService == ServiceInit /\ [][ServiceNext]_vars

UpgradeInit == UpgradeBoot /\ RetryIdle /\ RulesIdle /\ ProxyIdle /\ ServiceIdle /\ StreamIdle
    /\ MonitorIdle
    /\ BatchIdle
    /\ DelayIdle
    /\ CidrIdle
    /\ PidFileIdle
    /\ DownloadIdle
SpecUpgrade == UpgradeInit /\ [][UpgradeNext]_vars

StreamInit == StreamStart /\ RetryIdle /\ RulesIdle /\ ProxyIdle /\ ServiceIdle /\ UpgradeIdle
    /\ MonitorIdle
    /\ BatchIdle
    /\ DelayIdle
    /\ CidrIdle
    /\ PidFileIdle
    /\ DownloadIdle
\* The runtime schedules the producer task whenever it can take a step; the
\* engine and the consumer are under no obligation
SpecStream ==
    StreamInit /\ [][StreamNext]_vars
        /\ WF_vars(ProducerConnect) /\ WF_vars(ProducerRead)

MonitorInit == MonitorStart /\ RetryIdle /\ RulesIdle /\ ProxyIdle /\ ServiceIdle /\ UpgradeIdle
    /\ StreamIdle
    /\ BatchIdle
    /\ DelayIdle
    /\ CidrIdle
    /\ PidFileIdle
    /\ DownloadIdle
\* The runtime runs the loop while the future of start is alive
SpecMonitor == MonitorInit /\ [][MonitorNext]_vars /\ WF_vars(MonCycle)

BatchInit == BatchStart /\ RetryIdle /\ RulesIdle /\ ProxyIdle /\ ServiceIdle /\ UpgradeIdle
    /\ DelayIdle
    /\ CidrIdle
    /\ PidFileIdle
    /\ DownloadIdle
    /\ StreamIdle /\ MonitorIdle
SpecBatch == BatchInit /\ [][BatchNext]_vars

DelayInit == DelayStart /\ RetryIdle /\ RulesIdle /\ ProxyIdle /\ ServiceIdle /\ UpgradeIdle
    /\ CidrIdle
    /\ PidFileIdle
    /\ DownloadIdle
    /\ StreamIdle /\ MonitorIdle /\ BatchIdle
SpecDelay == DelayInit /\ [][DelayNext]_vars

CidrInit == CidrStart /\ RetryIdle /\ RulesIdle /\ ProxyIdle /\ ServiceIdle /\ UpgradeIdle
    /\ PidFileIdle
    /\ DownloadIdle
    /\ StreamIdle /\ MonitorIdle /\ BatchIdle /\ DelayIdle
SpecCidr == CidrInit /\ [][CidrNext]_vars

PidFileInit == PidFileStart /\ RetryIdle /\ RulesIdle /\ ProxyIdle /\ ServiceIdle /\ UpgradeIdle
    /\ DownloadIdle
    /\ StreamIdle /\ MonitorIdle /\ BatchIdle /\ DelayIdle /\ CidrIdle
SpecPidFile == PidFileInit /\ [][PidFileNext]_vars

DownloadInit == DownloadStart /\ RetryIdle /\ RulesIdle /\ ProxyIdle /\ ServiceIdle /\ UpgradeIdle
    /\ StreamIdle /\ MonitorIdle /\ BatchIdle /\ DelayIdle /\ CidrIdle /\ PidFileIdle

SpecDownload == DownloadInit /\ [][DownloadNext]_vars

\* The monitor from a full event log on
EventsInit == MonitorFull /\ RetryIdle /\ RulesIdle /\ ProxyIdle /\ ServiceIdle /\ UpgradeIdle
    /\ StreamIdle
    /\ BatchIdle
    /\ DelayIdle
    /\ CidrIdle
    /\ PidFileIdle
    /\ DownloadIdle
SpecEvents == EventsInit /\ [][MonitorNext]_vars /\ WF_vars(MonCycle)

(***************************************************************************)
(* Properties of the retry executor and the client.                        *)
(***************************************************************************)
\* The taxonomy's retryable kinds (spec section 7): Network (with the HTTP
\* transport errors), Timeout and ServiceUnavailable.
TaxonomyRetryable(e) == e \in {"Http", "Network", "Timeout", "ServiceUnavailable"}

Failed(i) == outcomes[i].tag = "Err"

\* C1: with N = max_attempts, execute invokes the operation at most N times
\* when every failure is a retryable error, and at most once when the first
\* failure is a non-retryable error.
C1_AttemptsBounded ==
    op_kind \in {"op", "get"} =>
        /\ (\A i \in DOMAIN outcomes : Failed(i) => TaxonomyRetryable(outcomes[i].val))
              => Len(outcomes) <= max_attempts
        /\ (\E i \in DOMAIN outcomes :
               /\ Failed(i) /\ ~TaxonomyRetryable(outcomes[i].val)
               /\ \A j \in 1..(i - 1) : ~Failed(j))
              => Len(outcomes) <= 1

\* C1 witness: every one of N >= 2 invocations failed with a retryable error
\* and execute returned.
C1_Witness ==
    /\ op_kind = "op" /\ epc = "done" /\ max_attempts >= 2
    /\ Len(outcomes) = max_attempts
    /\ \A i \in DOMAIN outcomes : Failed(i) /\ TaxonomyRetryable(outcomes[i].val)

\* C2: a request answered with 401, 403 or 404 is the last one sent: the
\* call has returned a non-retryable error and no backoff sleep follows it.
C2_NoRetryOnAuthOrNotFound ==
    op_kind = "get" =>
        \A i \in DOMAIN responses :
            (responses[i].sent /\ responses[i].status \in {401, 403, 404}) =>
                /\ i = Len(responses)
                /\ epc = "done"
                /\ sleeps = i - 1
                /\ result.tag = "Err" /\ ~TaxonomyRetryable(result.val)

\* C3: a non-2xx answer is translated by status (401 Auth, 404 NotFound,
\* 5xx ServiceUnavailable) and is never returned as a success or as the
\* result of decoding its body.
C3_StatusTranslated ==
    (op_kind \in {"get", "core"} /\ epc = "done" /\ responses # <<>>) =>
        LET r == responses[Len(responses)] IN
        (r.sent /\ ~is_success(r.status)) =>
            /\ result.tag = "Err"
            /\ result.val # "Json"
            /\ (r.status = 401 => result.val = "Auth")
            /\ (r.status = 404 => result.val = "NotFound")
            /\ (r.status >= 500 => result.val = "ServiceUnavailable")

(***************************************************************************)
(* Properties of the rule engine.                                          *)
(***************************************************************************)
\* Rule i of the cache holds on the last query: its predicate is true.
RuleHolds(i) ==
    is_rule_match(rules_cache[i], rules_last.target, rules_last.port) = OkB(TRUE)

\* C4: on the cached list, match_rule returns the first rule (lowest index)
\* whose predicate holds on the query, with its target; it returns none if
\* and only if no rule's predicate holds.
C4_FirstMatch ==
    (rules_last.op = "match_rule" /\ cache_valid) =>
        LET hits == {i \in DOMAIN rules_cache : RuleHolds(i)}
            res == rules_last.res
        IN
        /\ hits # {} =>
              /\ res.tag = "Ok"
              /\ res.idx \in hits
              /\ \A j \in hits : res.idx <= j
              /\ res.rule = rules_cache[res.idx]
        /\ (res.tag = "Ok" /\ res.idx = NoMatch) <=> hits = {}

(***************************************************************************)
(* Properties of the proxy manager.                                        *)
(***************************************************************************)
\* name is one of the members listed in all
InAll(all, name) == name \in {all[i] : i \in DOMAIN all}

\* C5: a cache refresh is atomic: after a refresh attempt, failed or not, the
\* node map and the group map are both what they were before it, or both
\* taken from one table the engine served; never new nodes with old groups.
C5_RefreshAtomic ==
    [][(GetProxies \/ ForceRefresh) =>
          \/ (proxy_cache' = proxy_cache /\ group_cache' = group_cache)
          \/ \E snap \in {engine_items, engine_items'} :
                /\ proxy_cache' = proxies(snap)
                /\ group_cache' = proxy_groups(snap)]_vars

\* The step is a call of switch_proxy, with the arguments proxy_last' holds
SwitchStep ==
    /\ proxy_last'.op = "switch_proxy"
    /\ SwitchProxyCall(proxy_last'.group, proxy_last'.node)

\* C6 as stated: switch_proxy(group, node) with group absent from the cached
\* groups, or node not in group.all, fails with a Proxy error, sends no PUT
\* and leaves the cache unchanged.
C6_RejectedUnchanged ==
    [][LET g == proxy_last'.group
           n == proxy_last'.node
       IN
       (/\ SwitchStep
        /\ (g \notin DOMAIN group_cache \/ ~InAll(group_cache[g].all, n)))
       => /\ proxy_last'.tag = "Err"
          /\ proxy_last'.err = "Proxy"
          /\ ~proxy_last'.put
          /\ proxy_cache' = proxy_cache
          /\ group_cache' = group_cache]_vars

\* C6 amended: called on a fresh cache with group absent from the cached
\* groups or node not in group.all, switch_proxy fails with a Proxy error,
\* sends no request and leaves the cache unchanged.  Called on a stale or
\* empty cache it refreshes the cache first and checks against the refreshed
\* one.  In every case a PUT is sent only for a node listed in the cached
\* group, and a Proxy error means no PUT was sent.
C6_ValidatedBeforePut ==
    [][LET g == proxy_last'.group
           n == proxy_last'.node
       IN
       SwitchStep =>
          /\ (/\ cache_elapsed # NoneInt /\ cache_elapsed < CacheTtl
              /\ (g \notin DOMAIN group_cache \/ ~InAll(group_cache[g].all, n)))
             => /\ proxy_last'.tag = "Err" /\ proxy_last'.err = "Proxy"
                /\ ~proxy_last'.put /\ proxy_last'.gets = 0
                /\ proxy_cache' = proxy_cache
                /\ group_cache' = group_cache
          /\ proxy_last'.put
             => (g \in DOMAIN group_cache' /\ InAll(group_cache'[g].all, n))
          /\ proxy_last'.err = "Proxy"
             => /\ ~proxy_last'.put
                /\ (g \notin DOMAIN group_cache'
                    \/ ~InAll(group_cache'[g].all, n))]_vars

\* A switch refused on a fresh cache: no request was sent at all
C6_Witness ==
    /\ proxy_last.op = "switch_proxy"
    /\ proxy_last.err = "Proxy"
    /\ proxy_last.gets = 0
    /\ ~proxy_last.put
    /\ "G" \in DOMAIN group_cache

C8_FastestThenName ==
    (proxy_last.op = "auto_select_fastest_proxy" /\ proxy_last.tag = "Ok") =>
        LET members == {proxy_last.members[i] : i \in DOMAIN proxy_last.members}
            ok == {m \in members : proxy_last.probes[m] # NoneInt}
            fastest == {m \in ok :
                           \A k \in ok : proxy_last.probes[m] <= proxy_last.probes[k]}
            names == <<"X", "Y", "Z">>
        IN
        /\ proxy_last.node \in fastest
        /\ \A k \in fastest : IndexIn(proxy_last.node, names) <= IndexIn(k, names)
        /\ group_cache[proxy_last.group].now = proxy_last.node

C10_StartedMeansServing ==
    (svc_last.op = "start" /\ svc_last.tag = "Ok") =>
        /\ svc_last.api = "2xx"
        /\ svc_last.child_alive
        /\ svc_last.pid_read = spawned

\* C11: when start has spawned a process and that process is dead when start
\* returns (it died before /version answered 2xx), or all 30 rounds passed
\* without is_running being true, start returns an error and no PID file
\* is left.
C11_FailedStartCleansUp ==
    (/\ svc_last.op = "start" /\ svc_last.tag \in {"Ok", "Err"}
     /\ sup_log # <<>> /\ sup_log[1] = "spawn"
     /\ \/ ~svc_last.child_alive
        \/ Cardinality({i \in DOMAIN sup_log : sup_log[i] = "poll"}) = StartPolls)
    => (svc_last.tag = "Err" /\ pid_file = <<>>)

C13_RollbackThenRestart ==
    \A i \in DOMAIN up_log :
        (/\ i > 1
         /\ up_log[i] = Did("start", FALSE)
         /\ up_log[i - 1] = Did("install", TRUE)
         /\ was_running
         /\ backup_path # <<>>)
        => /\ Len(up_log) = i => up_pc = "restore"
           /\ Len(up_log) > i =>
                 /\ up_log[i + 1].step = "restore"
                 /\ up_log[i + 1].ok =>
                       /\ files[binary_path] = backup_file
                       /\ Len(up_log) = i + 1 => up_pc = "restart"
                       /\ Len(up_log) > i + 1 => up_log[i + 2].step = "start"
                       /\ up_result.tag # "Pending" => Len(up_log) = i + 2
                 /\ ~up_log[i + 1].ok =>
                       /\ up_result.tag = "Err"
                       /\ {"start", "restore"} \subseteq up_result.parts

\* The engine was running, the start after the install failed, the backup
\* was restored and start was attempted again
C13_Witness ==
    /\ up_pc = "idle"
    /\ was_running
    /\ Len(up_log) >= 5
    /\ up_log[Len(up_log) - 2] = Did("start", FALSE)
    /\ up_log[Len(up_log) - 1] = Did("restore", TRUE)
    /\ up_log[Len(up_log)].step = "start"

(***************************************************************************)
(* Properties of the telemetry streams.                                    *)
(***************************************************************************)
\* The items sent to the consumer so far, in the order it gets them
Delivered == received \o chan

\* C14: in every telemetry stream (traffic, memory, connections), a frame
\* that fails to decode produces exactly one error item in the consumer's
\* sequence, and the sequence continues with the following frames: a frame
\* that decodes, read after it, produces its item.
C14_BadFrameOneError ==
    (st_kind # "stream_logs" /\ rx_open) =>
        \A k \in DOMAIN read_log :
            /\ read_log[k].kind = "text_bad" =>
                  Cardinality({j \in DOMAIN Delivered :
                                  Delivered[j] = [id |-> read_log[k].id, ok |-> FALSE]}) = 1
            /\ read_log[k].kind = "text_ok" =>
                  \E j \in DOMAIN Delivered :
                      Delivered[j] = [id |-> read_log[k].id, ok |-> TRUE]

\* C15: after the consumer handle of a stream is dropped, the producer task
\* eventually terminates and the socket is closed, whether or not the
\* engine emits a further frame.
C15_DropEndsProducer ==
    (~rx_open) ~> (task = "done" /\ ~socket_open)

\* C16: within one stream the items reach the consumer in the order in which
\* the engine emitted their frames, none reordered and none twice; each is
\* made from a frame the client has read.
C16_EmissionOrder ==
    /\ \A i, j \in DOMAIN Delivered : i < j => Delivered[i].id < Delivered[j].id
    /\ \A i \in DOMAIN Delivered :
          \E k \in DOMAIN read_log : read_log[k].id = Delivered[i].id

\* The consumer has got two items, and a third frame or item is behind them
C16_Witness ==
    /\ Len(received) >= 2
    /\ Len(read_log) >= 2

(***************************************************************************)
(* Properties of the monitor.                                              *)
(***************************************************************************)
\* C17: once the monitor has been started, a call to stop flips the running
\* flag and the sampling loop then terminates: start returns Ok.
C17_StopEndsLoop ==
    (mon_last.op = "stop" /\ mon_last.ret = "was_running")
        ~> (mon_last.op = "start" /\ mon_last.tag = "Ok")

\* C18: if a sampling call (traffic, memory or connections) returns an error,
\* the health reported by get_system_status is Unknown.
C18_ErrorMeansUnknown ==
    LET failed == mon_last.ret \in {"traffic", "memory", "connections"}
        health == IF mon_last.tag = "Ok" THEN <<mon_last.ret>> ELSE <<>>
    IN (mon_last.op = "get_system_status" /\ failed) => health = <<"Unknown">>

\* C19: each sampling call that fails in a cycle of the monitor loop appends
\* one HealthCheckFailed event to the event log.
C19_FailureLogged ==
    mon_last.op = "cycle" =>
        LET s == mon_last.sample[1]
            failures ==
                {c \in {"traffic", "memory", "connections"} :
                    /\ s[c] = <<>>
                    /\ \/ c = "traffic" /\ mon_config.enable_traffic_monitor
                       \/ c = "memory" /\ mon_config.enable_memory_monitor
                       \/ c = "connections" /\ mon_config.enable_connection_monitor}
            logged ==
                {i \in DOMAIN history.events :
                    history.events[i] = [type |-> "HealthCheckFailed", ts |-> mon_now]}
        IN Cardinality(logged) = Cardinality(failures)

(***************************************************************************)
(* Properties of the proxy cache.                                          *)
(***************************************************************************)
\* C20: a read through get_proxies (get_proxy, get_proxy_groups and
\* get_proxy_group go through the same ensure_cache) sends requests to the
\* engine if and only if the cache is stale when it is called: never filled,
\* or filled CacheTtl seconds ago or more.  A read on a fresh cache sends no
\* request and succeeds.
C20_FetchIffStale ==
    [][(proxy_last'.op = "get_proxies" /\ GetProxies) =>
          LET stale == cache_elapsed = NoneInt \/ cache_elapsed >= CacheTtl IN
          /\ proxy_last'.gets > 0 <=> stale
          /\ ~stale => /\ proxy_last'.tag = "Ok"
                       /\ proxy_cache' = proxy_cache
                       /\ group_cache' = group_cache]_vars

\* A read on a cache filled less than CacheTtl seconds ago, after time has
\* passed, that sent no request
C20_Witness ==
    /\ proxy_last.op = "get_proxies"
    /\ proxy_last.gets = 0
    /\ cache_elapsed # NoneInt
    /\ cache_elapsed > 0
    /\ cache_elapsed < CacheTtl

\* C21: a successful switch_proxy invalidates the proxy cache: the next read
\* through get_proxies fetches from the engine, whatever the age of the cache.
C21_SwitchInvalidates ==
    [][(/\ proxy_last.op = "switch_proxy"
        /\ proxy_last.tag = "Ok"
        /\ proxy_last'.op = "get_proxies"
        /\ GetProxies)
       => proxy_last'.gets > 0]_vars

\* C22 as stated: when switch_proxy(group, node) succeeds (it passed the
\* checks and the PUT was answered 2xx), a PUT was sent, the engine has node
\* as the group's selection, the cached group's now is node, and every other
\* cached group and every cached node is what it was before the call.
C22_SwitchSetsNowOnly ==
    [][LET g == proxy_last'.group
           n == proxy_last'.node
       IN
       (SwitchStep /\ proxy_last'.tag = "Ok")
       => /\ proxy_last'.put
          /\ engine_items'[g].now = <<n>>
          /\ group_cache'[g].now = n
          /\ proxy_cache' = proxy_cache
          /\ DOMAIN group_cache' = DOMAIN group_cache
          /\ \A h \in DOMAIN group_cache' \ {g} : group_cache'[h] = group_cache[h]]_vars

\* C22 amended: a successful switch_proxy(group, node) has sent the PUT, the
\* engine has node as the group's selection and the cached group's now is
\* node.  Called on a fresh cache it changes nothing else in the cache and
\* sends no GET; called on a stale or empty cache it has first replaced both
\* maps by what the engine served, and the group map is then the engine's
\* table with the new selection.
C22_SwitchSetsNow ==
    [][LET g == proxy_last'.group
           n == proxy_last'.node
           fresh == cache_elapsed # NoneInt /\ cache_elapsed < CacheTtl
       IN
       (SwitchStep /\ proxy_last'.tag = "Ok")
       => /\ proxy_last'.put
          /\ engine_items'[g].now = <<n>>
          /\ group_cache'[g].now = n
          /\ fresh =>
                /\ proxy_last'.gets = 0
                /\ proxy_cache' = proxy_cache
                /\ group_cache' = [group_cache EXCEPT ![g].now = n]
                /\ engine_items' = [engine_items EXCEPT ![g].now = <<n>>]
          /\ ~fresh =>
                /\ proxy_last'.gets = 2
                /\ proxy_cache' = proxies(engine_items)
                /\ group_cache' = proxy_groups(engine_items')]_vars

\* A switch on a fresh cache that holds a second group, to a node that was
\* not the selection the cache was filled with
C22_Witness ==
    /\ proxy_last.op = "switch_proxy"
    /\ proxy_last.tag = "Ok"
    /\ proxy_last.gets = 0
    /\ proxy_last.node # "X"
    /\ "H" \in DOMAIN group_cache
    /\ group_cache[proxy_last.group].now = proxy_last.node

\* The step is a call of auto_select_fastest_proxy (the last call is one, and
\* the step is not one of the two that leave the record of the last call
\* alone) that found, in the cache it worked on, the group without members
\* or with every member's probe failed
AutoSelectNothingStep ==
    /\ proxy_last'.op = "auto_select_fastest_proxy"
    /\ LET g == proxy_last'.group IN
       /\ g \in DOMAIN group_cache'
       /\ \A i \in DOMAIN group_cache'[g].all :
             proxy_last'.probes[group_cache'[g].all[i]] = NoneInt
    /\ ~(Tick \/ EngineChange)

\* C23 as stated: auto_select_fastest_proxy fails with an error, sends no
\* switch request and leaves the cached group's now as it was before the
\* call whenever group.all is empty or every delay probe failed.
C23_NothingToSelect ==
    [][LET g == proxy_last'.group IN
       AutoSelectNothingStep
       => /\ proxy_last'.tag = "Err"
          /\ ~proxy_last'.put
          /\ g \in DOMAIN group_cache => group_cache'[g].now = group_cache[g].now]_vars

\* C23 amended: in that case the call fails and sends no switch request.  On
\* a fresh cache the error is a Proxy error, no request is sent at all and
\* the cache is unchanged; on a stale or empty cache the call has first
\* tried to refresh it, and the group map is the one before the call or the
\* one the engine served, never one with a selection written by the call.
C23_NothingToSelectNoPut ==
    [][LET fresh == cache_elapsed # NoneInt /\ cache_elapsed < CacheTtl IN
       AutoSelectNothingStep
       => /\ proxy_last'.tag = "Err"
          /\ ~proxy_last'.put
          /\ engine_items' \in {engine_items} \cup EnginePayloads
          /\ fresh => /\ proxy_last'.err = "Proxy"
                      /\ proxy_last'.gets = 0
                      /\ proxy_cache' = proxy_cache
                      /\ group_cache' = group_cache
          /\ ~fresh => group_cache' \in {group_cache, proxy_groups(engine_items')}]_vars

\* Every probe of a group with members failed, on a fresh cache
C23_Witness ==
    /\ proxy_last.op = "auto_select_fastest_proxy"
    /\ proxy_last.err = "Proxy"
    /\ proxy_last.gets = 0
    /\ proxy_last.members # <<>>
    /\ \A i \in DOMAIN proxy_last.members :
          proxy_last.probes[proxy_last.members[i]] = NoneInt

\* C24: for the payload the engine serves on /proxies, each item is exactly
\* one of node and group, by the emptiness of its all, and its name is a key
\* of exactly one of the client's node map and group map.
C24_Partition ==
    \A k \in DOMAIN engine_items :
        /\ is_node(engine_items[k]) # is_group(engine_items[k])
        /\ (k \in DOMAIN proxies(engine_items))
              # (k \in DOMAIN proxy_groups(engine_items))

(***************************************************************************)
(* Properties of the requests.                                             *)
(***************************************************************************)
\* C25: when a secret is configured, the request that opens a stream, HTTP
\* or WebSocket handshake, carries the header Authorization: Bearer <secret>.
C25_BearerOnEveryRequest ==
    (st_secret # <<>> /\ st_request # <<>>) =>
        st_request[1].authorization = <<<<"Bearer", st_secret[1]>>>>

(***************************************************************************)
(* Properties of the monitor's history.                                    *)
(***************************************************************************)
\* C26: the event log never holds more than 1000 entries, and a call of
\* start or stop that finds it full drops the oldest entry and appends the
\* new one after the others, which keep their order.
C26_EventLogCapped ==
    /\ [](Len(history.events) <= EventCap)
    /\ [][(mon_last'.op \in {"start", "stop"} /\ history' # history
           /\ Len(history.events) = EventCap)
          => /\ Len(history'.events) = EventCap
             /\ \A i \in 1..(EventCap - 1) :
                   history'.events[i] = history.events[i + 1]
             /\ history'.events[EventCap] =
                   [type |-> IF mon_last'.op = "stop" THEN "SystemStop"
                             ELSE "SystemStart",
                    ts |-> mon_now]]_vars

C26_Witness ==
    /\ mon_last.op = "stop"
    /\ Len(history.events) = EventCap
    /\ history.events[1].type = "MemoryAlert"
    /\ history.events[EventCap - 1].type = "SystemStart"
    /\ history.events[EventCap].type = "SystemStop"

\* C27: after every sampling cycle, each retained traffic, memory and
\* connection sample is no older than history_retention.
C27_RetainedWithinRetention ==
    mon_last.op = "cycle" =>
        \A field \in {"traffic_history", "memory_history", "connection_history"} :
            \A i \in DOMAIN history[field] :
                mon_now - history[field][i] <= mon_config.history_retention

C27_Witness ==
    /\ mon_last.op = "cycle"
    /\ mon_now = 3
    /\ mon_config.history_retention = 2
    /\ history.traffic_history = <<2, 3>>
    /\ history.memory_history = <<2, 3>>
    /\ history.connection_history = <<3>>

\* C28: the health get_system_status computes for a snapshot is Unhealthy
\* exactly when some enabled check exceeds twice its threshold, otherwise
\* Warning exactly when some enabled check exceeds its threshold, otherwise
\* Healthy.
C28_HealthByEnabledChecks ==
    (mon_last.op = "get_system_status" /\ mon_last.tag = "Ok") =>
        LET s == mon_last.sample[1]
            readings ==
                (IF mon_config.enable_traffic_monitor /\ mon_config.traffic_threshold # <<>>
                 THEN {<<s.traffic[1].up, mon_config.traffic_threshold[1]>>,
                       <<s.traffic[1].down, mon_config.traffic_threshold[1]>>}
                 ELSE {})
                \cup (IF mon_config.enable_memory_monitor /\ mon_config.memory_threshold # <<>>
                      THEN {<<s.memory[1], mon_config.memory_threshold[1]>>}
                      ELSE {})
                \cup (IF /\ mon_config.enable_connection_monitor
                         /\ mon_config.connection_threshold # <<>>
                      THEN {<<s.connections[1], mon_config.connection_threshold[1]>>}
                      ELSE {})
        IN mon_last.ret =
              IF \E r \in readings : r[1] > 2 * r[2] THEN "Unhealthy"
              ELSE IF \E r \in readings : r[1] > r[2] THEN "Warning"
              ELSE "Healthy"

(***************************************************************************)
(* Properties of the rule cache.                                           *)
(***************************************************************************)
\* C29: once the rule cache has been filled, get_rules, match_rule,
\* get_rule_stats and the find-by queries do not fetch /rules and leave the
\* cached list as it is; only refresh_rules replaces it.
C29_FilledCacheNeverRefetched ==
    [][cache_valid =>
          /\ cache_valid'
          /\ (rules_fetches' # rules_fetches \/ rules_cache' # rules_cache)
                => rules_last'.op = "refresh_rules"
          /\ (rules_last' # rules_last /\ rules_last'.op # "refresh_rules")
                => ~rules_last'.fetched]_vars

C29_Witness ==
    /\ cache_valid
    /\ rules_cache # engine_rules
    /\ rules_last.op = "get_rule_stats"
    /\ ~rules_last.fetched
    /\ rules_last.res.found.total_rules = Len(rules_cache)
    /\ rules_fetches = 1

(***************************************************************************)
(* Properties of the retry loop.                                           *)
(***************************************************************************)
\* The first k invocations all failed with retryable errors
RetryableFailures(k) ==
    /\ k <= Len(outcomes)
    /\ \A i \in 1..k : outcomes[i].tag = "Err" /\ is_retryable(outcomes[i].val)

\* C30: when the operation fails with retryable errors on its first k
\* invocations, k < max_attempts, and then succeeds, execute makes the
\* invocation k + 1, returns its value and invokes the operation no more.
C30_SuccessAfterRetries ==
    op_kind \in {"op", "get"} =>
        \A k \in 0..(max_attempts - 1) :
            /\ (RetryableFailures(k) /\ Len(outcomes) = k) =>
                  (epc # "done" /\ result = NoResult)
            /\ (RetryableFailures(k) /\ Len(outcomes) > k /\ outcomes[k + 1].tag = "Ok") =>
                  /\ Len(outcomes) = k + 1
                  /\ epc = "done"
                  /\ result = outcomes[k + 1]
                  /\ sleeps = k

C30_Witness ==
    /\ op_kind = "op"
    /\ max_attempts = 3
    /\ Len(outcomes) = 3
    /\ RetryableFailures(2)
    /\ outcomes[3].tag = "Ok"
    /\ result = outcomes[3]
    /\ epc = "done"

(***************************************************************************)
(* Properties of the batch test.                                           *)
(***************************************************************************)
\* The tasks whose delay probe is in flight
InFlight == {i \in DOMAIN bt_tasks : bt_tasks[i].pc = "probe"}

\* C31: during the batch test there are never more than `concurrent` delay
\* probes in flight, whatever the number of proxies.
C31_ProbesBounded ==
    /\ Cardinality(InFlight) <= bt_concurrent
    /\ bt_permits + Cardinality(InFlight) = bt_concurrent

C31_Witness ==
    /\ Len(bt_tasks) = 3
    /\ bt_concurrent = 2
    /\ Cardinality(InFlight) = 2
    /\ \E i \in DOMAIN bt_tasks : bt_tasks[i].pc = "acquire"

C33_PrefixMatch ==
    ci_out # <<>> =>
        LET ip == parse_ip(ci_ip)
            parts == split(ci_cidr, "/")
            network_ip == parse_ip(parts[1])
            prefix_len == parse_uint(parts[2], U8Max)
            expected == OkB(SubSeq(bits_from(ip.octets), 1, prefix_len)
                              = SubSeq(bits_from(network_ip.octets), 1, prefix_len))
        IN /\ ip.fam # network_ip.fam =>
                (ci_out[1].rules # OkB(TRUE) /\ ci_out[1].utils # OkB(TRUE))
           /\ (ip.fam = network_ip.fam /\ prefix_len <= 8 * Len(ip.octets)) =>
                (ci_out[1].rules = expected /\ ci_out[1].utils = expected)

(***************************************************************************)
(* Properties of the PID file.                                             *)
(***************************************************************************)
\* C34: for every pid p, a read that follows a successful write of p returns
\* p, and a read that follows a successful remove returns none.
C34_PidRoundTrip ==
    \A i \in 2..Len(pf_log) :
        LET before == pf_log[i - 1]
            read == pf_log[i]
        IN read.op = "read" =>
              /\ (before.op = "write" /\ before.ok) =>
                    (read.ret = before.pid /\ read.res = Ok(before.pid))
              /\ (before.op = "remove" /\ before.ok) =>
                    (read.ret = NoneInt /\ read.res = Err("NotFound"))

C34_Witness ==
    /\ Len(pf_log) = 4
    /\ pf_log[1] = PidCall("write", 4321, TRUE, NoneInt, NoResult)
    /\ pf_log[2].op = "read" /\ pf_log[2].ret = 4321
    /\ pf_log[3] = PidCall("remove", NoneInt, TRUE, NoneInt, NoResult)
    /\ pf_log[4].op = "read" /\ pf_log[4].ret = NoneInt
    /\ pf_file = <<>>

\* C35: a start called while the status is Running fails without spawning a
\* process and leaves the PID file as it was, and a start spawns a process
\* only when the process spawned by the start before it is gone: the
\* supervisor never has two engine processes of its own alive.
C35_StartNeverDoubles ==
    [][/\ (sup_pc = "idle" /\ is_running(pid_file, alive, api).running
           /\ svc_last'.op = "start" /\ svc_last' # svc_last)
          => /\ svc_last'.tag = "Err"
             /\ spawned' = spawned
             /\ alive' = alive
             /\ pid_file' = pid_file
       /\ (spawned' # spawned) => spawned \notin alive]_vars

\* C35, its first half alone: a start called while the status is Running
\* fails, spawns nothing and leaves the PID file as it was.
C35_RunningStartRefused ==
    [][(sup_pc = "idle" /\ is_running(pid_file, alive, api).running
        /\ svc_last'.op = "start" /\ svc_last' # svc_last)
       => /\ svc_last'.tag = "Err"
          /\ spawned' = spawned
          /\ alive' = alive
          /\ pid_file' = pid_file]_vars

\* C36: when stop has returned success there is no PID file, and the
\* process the PID file named when stop was called is not alive.
C36_StoppedMeansGone ==
    (svc_last.op = "stop" /\ svc_last.tag = "Ok")
    => /\ pid_file = <<>>
       /\ svc_last.pid_read \notin alive

\* C37: when the engine was running at the call of upgrade_to_version and
\* the call has returned an error, whichever step failed, a start of the
\* engine was attempted before the return.
C37_FailedUpgradeRestarts ==
    (up_pc = "idle" /\ was_running /\ up_result.tag = "Err")
    => \E i \in DOMAIN up_log : up_log[i].step = "start"

\* Rule i of the cache has a malformed payload: an IP-CIDR rule whose CIDR
\* text is_ip_in_cidr rejects.
Malformed(i) ==
    /\ rules_cache[i].rule_type = "IpCidr"
    /\ is_ip_in_cidr(parse_ip(TxtIp10009), rules_cache[i].payload).tag = "Err"

\* C38: a malformed rule in the cache counts as a rule that does not match:
\* match_rule, once the cache is filled, does not fail because of it, and
\* returns the first rule whose predicate holds on the query, or none.
C38_MalformedRuleSkipped ==
    (/\ rules_last.op = "match_rule"
     /\ cache_valid
     /\ rules_last.res.err \notin FetchErrors
     /\ \E i \in DOMAIN rules_cache : Malformed(i))
    => LET hits == {i \in DOMAIN rules_cache : RuleHolds(i)}
           res == rules_last.res
       IN
       /\ res.tag = "Ok"
       /\ hits = {} => res.idx = NoMatch
       /\ hits # {} => (res.idx \in hits /\ \A j \in hits : res.idx <= j)

(***************************************************************************)
(* Properties of a version download.                                       *)
(***************************************************************************)
\* The last download failed on the response status, on the transfer, or on
\* the decompression of the body
FailedBeforeWrite ==
    /\ dn_last.tag = "Err"
    /\ \/ dn_last.fault \in {"send", "status", "bytes"}
       \/ /\ dn_last.fault \notin {"asset", "mkdir"} \/ dn_last.impl = "version"
          /\ \/ dn_last.extension = "gz" /\ decompress_gz(dn_last.body).tag = "Err"
             \/ /\ dn_last.extension = "zip" /\ dn_last.impl = "version"
                /\ decompress_zip(dn_last.body).tag = "Err"

\* C39: after a download that failed on a non-2xx response, a transfer
\* error or a decompression failure, the file at the destination path is,
\* byte for byte, the file that was there before the call (or there is
\* still none).
C39_FailedDownloadKeepsFile ==
    FailedBeforeWrite => dn_file = dn_last.before

\* The second download, over an installed binary, failed on the
\* decompression of a body that is not gzip data
C39_Witness ==
    /\ dn_calls = 2
    /\ dn_last.before = <<<<4, 5, 6>>>>
    /\ dn_last.tag = "Err"
    /\ dn_last.fault = "none"
    /\ dn_last.extension = "gz"
    /\ decompress_gz(dn_last.body).tag = "Err"
    /\ dn_file = <<<<4, 5, 6>>>>

\* C40: with max_attempts = 0, execute and execute_sync never invoke the
\* operation, and what they return is an error: not a success, and the call
\* does not panic.
C40_ZeroAttemptsIsError ==
    (op_kind \in {"op", "sync"} /\ max_attempts = 0) =>
        /\ outcomes = <<>>
        /\ sleeps = 0
        /\ result.tag \in {"None", "Err"}
        /\ epc = "done" => result = Err("Internal")

\* execute_sync with max_attempts = 0 has returned
C40_Witness ==
    /\ op_kind = "sync"
    /\ max_attempts = 0
    /\ epc = "done"
    /\ outcomes = <<>>
    /\ result = Err("Internal")

====
